---- MODULE Spec2Model ----
(***************************************************************************)
(* Model of the FASTQ multi-record collection of IMSEQ                     *)
(* (src/fastq_multi_record.h) and of the record reading / first quality    *)
(* control it drives (fastq_io.h).                                         *)
(*                                                                         *)
(* A Dna5Q residue is a record [b, q]: its base and its quality value.     *)
(* A String<Dna5Q> is a sequence of residues.  Mean quality vectors        *)
(* (String<float>) are sequences of exact rationals <<n, d>> in lowest     *)
(* terms, so the arithmetic of the mean updates is computed as written in  *)
(* the source; the rounding of float is not represented.                   *)
(* Slots are 0-based as in the source; multiRecordPtrs[s + 1] is slot s.   *)
(***************************************************************************)
EXTENDS Integers, Sequences, FiniteSets, TLC

\* ------------------------------------------------------------------------
\* Bounds of the model
\* ------------------------------------------------------------------------
NumIds == 2
MaxFold == 3
MaxWeight == 3
MaxRecords == 3
MaxCalls == 2
MaxMerge == 2
MaxBarcodeLength == 3

Ids == 1..NumIds

\* ------------------------------------------------------------------------
\* Residues, sequences and keys
\* ------------------------------------------------------------------------
Q(base, qual) == [b |-> base, q |-> qual]

\* Comparison of Dna5Q residues, and so of the strings used as map keys,
\* looks at the base only: the key of a string is its sequence of bases.
SeqKey(s) == [i \in 1..Len(s) |-> s[i].b]

getQualityValue(c) == c.q

infix(s, from, to) == SubSeq(s, from + 1, to)

contains(s, base) == \E i \in 1..Len(s) : s[i].b = base

\* ------------------------------------------------------------------------
\* Exact arithmetic for the mean quality values
\* ------------------------------------------------------------------------
RECURSIVE GCD(_, _)
GCD(a, b) == IF b = 0 THEN a ELSE GCD(b, a % b)

Norm(n, d) == IF d = 0 THEN <<0, 0>> ELSE LET g == GCD(n, d) IN <<n \div g, d \div g>>

RAdd(x, y) == Norm(x[1] * y[2] + y[1] * x[2], x[2] * y[2])

RScale(x, k) == Norm(x[1] * k, x[2])

RDivInt(x, k) == Norm(x[1], x[2] * k)

RECURSIVE SumSeq(_)
SumSeq(s) == IF Len(s) = 0 THEN 0 ELSE s[1] + SumSeq(Tail(s))

\* ------------------------------------------------------------------------
\* std::map / std::unordered_map helpers
\* ------------------------------------------------------------------------
EmptyMap == <<>>

MapPut(m, k, v) == [x \in (DOMAIN m) \cup {k} |-> IF x = k THEN v ELSE m[x]]

\* operator[] of a nested map level: creates an empty level when absent
MapTouch(m, k) == IF k \in DOMAIN m THEN m ELSE MapPut(m, k, EmptyMap)

\* ------------------------------------------------------------------------
\* FastqRecord: [id, bcSeq, seq] (single end) or
\*              [id, bcSeq, fwSeq, revSeq] (paired end)
\* ------------------------------------------------------------------------
EmptyId == 0

IsPaired(rec) == "fwSeq" \in DOMAIN rec

DefaultRecord(pe) ==
    IF pe THEN [id |-> EmptyId, bcSeq |-> <<>>, fwSeq |-> <<>>, revSeq |-> <<>>]
          ELSE [id |-> EmptyId, bcSeq |-> <<>>, seq |-> <<>>]

\* as splitBarcodeSeq, but without the test for a read shorter than the
\* barcode: the barcode is what the read has
splitBarcodeSeq_NoLengthTest(seq, bcSeq, barcodeLength) ==
    IF barcodeLength = 0
    THEN [ret |-> TRUE, seq |-> seq, bcSeq |-> bcSeq]
    ELSE IF Len(seq) < barcodeLength
    THEN [ret |-> TRUE, seq |-> <<>>, bcSeq |-> seq]
    ELSE [ret |-> TRUE,
          seq |-> infix(seq, barcodeLength, Len(seq)),
          bcSeq |-> infix(seq, 0, barcodeLength)]

\* as splitBarcodeSeq, but the barcode is appended to what bcSeq held
splitBarcodeSeq_AppendsBarcode(seq, bcSeq, barcodeLength) ==
    IF barcodeLength = 0
    THEN [ret |-> TRUE, seq |-> seq, bcSeq |-> bcSeq]
    ELSE IF Len(seq) < barcodeLength
    THEN [ret |-> FALSE, seq |-> seq, bcSeq |-> <<>>]
    ELSE [ret |-> TRUE,
          seq |-> infix(seq, barcodeLength, Len(seq)),
          bcSeq |-> bcSeq \o infix(seq, 0, barcodeLength)]

\* as splitBarcodeSeq, but bcSeq is not emptied when the read is too short
splitBarcodeSeq_KeepsBarcode(seq, bcSeq, barcodeLength) ==
    IF barcodeLength = 0
    THEN [ret |-> TRUE, seq |-> seq, bcSeq |-> bcSeq]
    ELSE IF Len(seq) < barcodeLength
    THEN [ret |-> FALSE, seq |-> seq, bcSeq |-> bcSeq]
    ELSE [ret |-> TRUE,
          seq |-> infix(seq, barcodeLength, Len(seq)),
          bcSeq |-> infix(seq, 0, barcodeLength)]

\* splitBarcodeSeq(seq, bcSeq, barcodeLength): the returned flag and the two
\* strings as the call leaves them
splitBarcodeSeq(seq, bcSeq, barcodeLength) ==
    IF barcodeLength = 0
    THEN [ret |-> TRUE, seq |-> seq, bcSeq |-> bcSeq]
    ELSE IF Len(seq) < barcodeLength
    THEN [ret |-> FALSE, seq |-> seq, bcSeq |-> <<>>]
    ELSE [ret |-> TRUE,
          seq |-> infix(seq, barcodeLength, Len(seq)),
          bcSeq |-> infix(seq, 0, barcodeLength)]

splitBarcodeSeq_SE(rec, barcodeVDJRead, barcodeLength) ==
    LET r == splitBarcodeSeq(rec.seq, rec.bcSeq, barcodeLength)
    IN  [ret |-> r.ret, rec |-> [rec EXCEPT !.seq = r.seq, !.bcSeq = r.bcSeq]]

\* as splitBarcodeSeq_PE, but with the two reads exchanged
splitBarcodeSeq_PE_Swapped(rec, barcodeVDJRead, barcodeLength) ==
    IF barcodeVDJRead
    THEN LET r == splitBarcodeSeq(rec.fwSeq, rec.bcSeq, barcodeLength)
         IN  [ret |-> r.ret, rec |-> [rec EXCEPT !.fwSeq = r.seq, !.bcSeq = r.bcSeq]]
    ELSE LET r == splitBarcodeSeq(rec.revSeq, rec.bcSeq, barcodeLength)
         IN  [ret |-> r.ret, rec |-> [rec EXCEPT !.revSeq = r.seq, !.bcSeq = r.bcSeq]]

splitBarcodeSeq_PE(rec, barcodeVDJRead, barcodeLength) ==
    IF barcodeVDJRead
    THEN LET r == splitBarcodeSeq(rec.revSeq, rec.bcSeq, barcodeLength)
         IN  [ret |-> r.ret, rec |-> [rec EXCEPT !.revSeq = r.seq, !.bcSeq = r.bcSeq]]
    ELSE LET r == splitBarcodeSeq(rec.fwSeq, rec.bcSeq, barcodeLength)
         IN  [ret |-> r.ret, rec |-> [rec EXCEPT !.fwSeq = r.seq, !.bcSeq = r.bcSeq]]

splitBarcodeSeq_Rec(rec, barcodeVDJRead, barcodeLength) ==
    IF IsPaired(rec) THEN splitBarcodeSeq_PE(rec, barcodeVDJRead, barcodeLength)
                     ELSE splitBarcodeSeq_SE(rec, barcodeVDJRead, barcodeLength)

\* as readTooShort_SE, with the comparison reversed
readTooShort_SE_Reversed(rec, minLength, singleEndFallback) ==
    [ret |-> Len(rec.seq) > minLength, rec |-> rec]

readTooShort_SE(rec, minLength, singleEndFallback) ==
    [ret |-> Len(rec.seq) < minLength, rec |-> rec]

\* as readTooShort_PE, but the single end fallback is not looked at
readTooShort_PE_NoFallback(rec, minLength, singleEndFallback) ==
    IF Len(rec.revSeq) < minLength THEN [ret |-> TRUE, rec |-> rec]
    ELSE IF Len(rec.fwSeq) >= minLength THEN [ret |-> FALSE, rec |-> rec]
    ELSE [ret |-> TRUE, rec |-> rec]

readTooShort_PE(rec, minLength, singleEndFallback) ==
    IF Len(rec.revSeq) < minLength THEN [ret |-> TRUE, rec |-> rec]
    ELSE IF Len(rec.fwSeq) >= minLength THEN [ret |-> FALSE, rec |-> rec]
    ELSE IF ~singleEndFallback THEN [ret |-> TRUE, rec |-> rec]
    ELSE [ret |-> FALSE, rec |-> [rec EXCEPT !.fwSeq = <<>>]]

readTooShort(rec, minLength, singleEndFallback) ==
    IF IsPaired(rec) THEN readTooShort_PE(rec, minLength, singleEndFallback)
                     ELSE readTooShort_SE(rec, minLength, singleEndFallback)

\* qc_basics.h is not part of the sources at hand.
\* anyQualityBelow(seq, q): some residue of seq has a quality below q.
anyQualityBelow(seq, qmin) == \E i \in 1..Len(seq) : getQualityValue(seq[i]) < qmin

\* averageQualityBelow(rec, qmin, singleEndFallback): its result is an
\* input of the model (outcome), one of
\*   "below"     returns true
\*   "ok"        returns false, record unchanged
\*   "fwDropped" returns false after emptying the forward read (paired end
\*               with single end fallback only)
AvgOutcomes(rec, singleEndFallback) ==
    {"below", "ok"} \cup (IF IsPaired(rec) /\ singleEndFallback THEN {"fwDropped"} ELSE {})

averageQualityBelow(rec, qmin, singleEndFallback, outcome) ==
    IF outcome = "below" THEN [ret |-> TRUE, rec |-> rec]
    ELSE IF outcome = "fwDropped" THEN [ret |-> FALSE, rec |-> [rec EXCEPT !.fwSeq = <<>>]]
    ELSE [ret |-> FALSE, rec |-> rec]

\* qualityControl(rec, options): the RejectReason and the record as the call
\* leaves it (readTooShort and averageQualityBelow may empty rec.fwSeq)
qualityControl(rec, options, outcome) ==
    IF contains(rec.bcSeq, "N") THEN [r |-> "N_IN_BARCODE", rec |-> rec]
    ELSE IF options.bcQmin > 0 /\ anyQualityBelow(rec.bcSeq, options.bcQmin)
    THEN [r |-> "LOW_QUALITY_BARCODE_BASE", rec |-> rec]
    ELSE LET a == IF options.qmin > 0
                  THEN averageQualityBelow(rec, options.qmin, options.singleEndFallback, outcome)
                  ELSE [ret |-> FALSE, rec |-> rec]
         IN  IF a.ret THEN [r |-> "AVERAGE_QUAL_FAIL", rec |-> a.rec]
             ELSE LET t == readTooShort(a.rec, options.minReadLength, options.singleEndFallback)
                  IN  IF t.ret THEN [r |-> "READ_TOO_SHORT", rec |-> t.rec]
                               ELSE [r |-> "NONE", rec |-> t.rec]

\* as readRecord, but the reads of the raw record are appended to what the
\* buffer holds
readRecord_AppendsRead(fastqRecord, raw) ==
    IF IsPaired(fastqRecord)
    THEN [fastqRecord EXCEPT !.id = raw.id, !.revSeq = @ \o raw.revSeq,
                             !.fwSeq = @ \o raw.fwSeq]
    ELSE [fastqRecord EXCEPT !.id = raw.id, !.seq = @ \o raw.seq]

\* readRecord(fastqRecord, inStreams): id and read(s) are overwritten by the
\* next raw record of the stream(s), bcSeq is left as it was
readRecord(fastqRecord, raw) ==
    IF IsPaired(fastqRecord)
    THEN [fastqRecord EXCEPT !.id = raw.id, !.revSeq = raw.revSeq, !.fwSeq = raw.fwSeq]
    ELSE [fastqRecord EXCEPT !.id = raw.id, !.seq = raw.seq]

\* readRecord(fastqRecord, inStreams, barcodeVDJRead, barcodeLength)
readRecord_Split(fastqRecord, raw, barcodeVDJRead, barcodeLength) ==
    splitBarcodeSeq_Rec(readRecord(fastqRecord, raw), barcodeVDJRead, barcodeLength)

\* ------------------------------------------------------------------------
\* FastqMultiRecord:
\*   [bcSeq, seq, ids, qualities]                         (single end)
\*   [bcSeq, fwSeq, revSeq, ids, fwQualities, revQualities] (paired end)
\* and the history field nMeanReads: the number of reads whose qualities
\* have been averaged into the mean vector(s) so far.
\* FastqMultiRecordCollection: [multiRecordPtrs, bcMap]
\* ------------------------------------------------------------------------
NO_MATCH == -1

NULL == -1

DefaultMultiRecord(pe) ==
    IF pe THEN [bcSeq |-> <<>>, fwSeq |-> <<>>, revSeq |-> <<>>, ids |-> {},
                fwQualities |-> <<>>, revQualities |-> <<>>, nMeanReads |-> 0]
          ELSE [bcSeq |-> <<>>, seq |-> <<>>, ids |-> {},
                qualities |-> <<>>, nMeanReads |-> 0]

EmptyCollection == [multiRecordPtrs |-> <<>>, bcMap |-> EmptyMap]

toFastqRecordSkel(mRec) ==
    IF IsPaired(mRec)
    THEN [DefaultRecord(TRUE) EXCEPT !.fwSeq = mRec.fwSeq, !.revSeq = mRec.revSeq,
                                     !.bcSeq = mRec.bcSeq]
    ELSE [DefaultRecord(FALSE) EXCEPT !.seq = mRec.seq, !.bcSeq = mRec.bcSeq]

getMultiRecord(coll, idx) == coll.multiRecordPtrs[idx + 1]

\* as clear, but the index is kept
clear_KeepsIndex(coll) == [multiRecordPtrs |-> <<>>, bcMap |-> coll.bcMap]

clear(coll) == [multiRecordPtrs |-> <<>>, bcMap |-> EmptyMap]

findMultiRecordPosition_SE(collection, bcSeq, seq) ==
    IF SeqKey(bcSeq) \notin DOMAIN collection.bcMap THEN NO_MATCH
    ELSE IF SeqKey(seq) \notin DOMAIN collection.bcMap[SeqKey(bcSeq)] THEN NO_MATCH
    ELSE collection.bcMap[SeqKey(bcSeq)][SeqKey(seq)]

findMultiRecordPosition_PE(collection, bcSeq, fwSeq, revSeq) ==
    IF SeqKey(bcSeq) \notin DOMAIN collection.bcMap THEN NO_MATCH
    ELSE IF SeqKey(fwSeq) \notin DOMAIN collection.bcMap[SeqKey(bcSeq)] THEN NO_MATCH
    ELSE IF SeqKey(revSeq) \notin DOMAIN collection.bcMap[SeqKey(bcSeq)][SeqKey(fwSeq)]
    THEN NO_MATCH
    ELSE collection.bcMap[SeqKey(bcSeq)][SeqKey(fwSeq)][SeqKey(revSeq)]

findMultiRecordPosition(collection, rec) ==
    IF IsPaired(rec)
    THEN findMultiRecordPosition_PE(collection, rec.bcSeq, rec.fwSeq, rec.revSeq)
    ELSE findMultiRecordPosition_SE(collection, rec.bcSeq, rec.seq)

\* as _generic_newMultiRecord, but the identifier is not inserted
_generic_newMultiRecord_NoId(record) ==
    [DefaultMultiRecord(IsPaired(record)) EXCEPT !.bcSeq = record.bcSeq]

_generic_newMultiRecord(record) ==
    [DefaultMultiRecord(IsPaired(record)) EXCEPT !.bcSeq = record.bcSeq,
                                                 !.ids = {record.id}]

\* updateMeanQualityValues(targetQualities, targetWeight, newQualities, newWeight):
\* ok is the SEQAN_CHECK, q the target vector afterwards
updateMeanQualityValues_W(targetQualities, targetWeight, newQualities, newWeight) ==
    [ok |-> \/ (Len(targetQualities) = 0 /\ targetWeight = 0)
            \/ (Len(targetQualities) = Len(newQualities) /\ Len(targetQualities) > 0),
     q  |-> IF Len(targetQualities) = 0
            THEN newQualities
            ELSE [i \in 1..Len(targetQualities) |->
                    IF i > Len(newQualities) THEN targetQualities[i]
                    ELSE RDivInt(RAdd(RScale(targetQualities[i], targetWeight),
                                      RScale(newQualities[i], newWeight)),
                                 targetWeight + newWeight)]]

\* as updateMeanQualityValues_Seq, but the old mean is not weighted
updateMeanQualityValues_Seq_Unweighted(qualities, origWeight, seq) ==
    LET resized == IF origWeight = 0
                   THEN [i \in 1..Len(seq) |-> <<0, 1>>]
                   ELSE qualities
    IN  [ok |-> \/ (Len(qualities) = 0 /\ origWeight = 0)
                \/ (Len(qualities) = Len(seq) /\ origWeight > 0),
         q  |-> [i \in 1..Len(resized) |->
                    IF i > Len(seq) THEN resized[i]
                    ELSE RDivInt(RAdd(resized[i], <<getQualityValue(seq[i]), 1>>),
                                 IF origWeight = 0 THEN 1 ELSE 2)]]

\* updateMeanQualityValues(qualities, origWeight, seq)
updateMeanQualityValues_Seq(qualities, origWeight, seq) ==
    LET resized == IF origWeight = 0
                   THEN [i \in 1..Len(seq) |-> IF i <= Len(qualities) THEN qualities[i]
                                                                       ELSE <<0, 1>>]
                   ELSE qualities
    IN  [ok |-> \/ (Len(qualities) = 0 /\ origWeight = 0)
                \/ (Len(qualities) = Len(seq) /\ origWeight > 0),
         q  |-> [i \in 1..Len(resized) |->
                    IF i > Len(seq) THEN resized[i]
                    ELSE RDivInt(RAdd(RScale(resized[i], origWeight),
                                      <<getQualityValue(seq[i]), 1>>),
                                 origWeight + 1)]]

\* updateMeanQualityValues(target, source) for two multi records
updateMeanQualityValues_SE(target, source) ==
    LET u == updateMeanQualityValues_W(target.qualities, Cardinality(target.ids),
                                       source.qualities, Cardinality(source.ids))
    IN  [ok |-> u.ok,
         mRec |-> [target EXCEPT !.qualities = u.q,
                                 !.nMeanReads = @ + source.nMeanReads]]

updateMeanQualityValues_PE(target, source) ==
    LET f == updateMeanQualityValues_W(target.fwQualities, Cardinality(target.ids),
                                       source.fwQualities, Cardinality(source.ids))
        r == updateMeanQualityValues_W(target.revQualities, Cardinality(target.ids),
                                       source.revQualities, Cardinality(source.ids))
    IN  [ok |-> f.ok /\ r.ok,
         mRec |-> [target EXCEPT !.fwQualities = f.q, !.revQualities = r.q,
                                 !.nMeanReads = @ + source.nMeanReads]]

updateMeanQualityValues_MR(target, source) ==
    IF IsPaired(target) THEN updateMeanQualityValues_PE(target, source)
                        ELSE updateMeanQualityValues_SE(target, source)

\* as newMultiRecord_SE, but the mean qualities are not set
newMultiRecord_SE_NoQualities(record) ==
    [ok |-> TRUE,
     mRec |-> [_generic_newMultiRecord(record) EXCEPT !.seq = record.seq, !.nMeanReads = 1]]

newMultiRecord_SE(record) ==
    LET u == updateMeanQualityValues_Seq(<<>>, 0, record.seq)
    IN  [ok |-> u.ok,
         mRec |-> [_generic_newMultiRecord(record) EXCEPT !.seq = record.seq,
                                                          !.qualities = u.q,
                                                          !.nMeanReads = 1]]

newMultiRecord_PE(record) ==
    LET f == updateMeanQualityValues_Seq(<<>>, 0, record.fwSeq)
        r == updateMeanQualityValues_Seq(<<>>, 0, record.revSeq)
    IN  [ok |-> f.ok /\ r.ok,
         mRec |-> [_generic_newMultiRecord(record) EXCEPT !.fwSeq = record.fwSeq,
                                                          !.fwQualities = f.q,
                                                          !.revSeq = record.revSeq,
                                                          !.revQualities = r.q,
                                                          !.nMeanReads = 1]]

newMultiRecord(record) ==
    IF IsPaired(record) THEN newMultiRecord_PE(record) ELSE newMultiRecord_SE(record)

\* mapMultiRecord: the store gets a copy of multiRecord appended, then the
\* SEQAN_CHECK (ok) looks the key up with operator[], which creates the
\* missing map levels, then the key is bound to the new slot
mapMultiRecord_PE(collection, multiRecord) ==
    LET ptrs == Append(collection.multiRecordPtrs, multiRecord)
        bk == SeqKey(multiRecord.bcSeq)
        fk == SeqKey(multiRecord.fwSeq)
        rk == SeqKey(multiRecord.revSeq)
        m1 == MapTouch(collection.bcMap, bk)
        m2 == [m1 EXCEPT ![bk] = MapTouch(@, fk)]
        ok == rk \notin DOMAIN m2[bk][fk]
        new_idx == Len(ptrs) - 1
    IN  [ok |-> ok,
         ret |-> new_idx,
         coll |-> [multiRecordPtrs |-> ptrs,
                   bcMap |-> IF ok THEN [m2 EXCEPT ![bk][fk] = MapPut(@, rk, new_idx)]
                                   ELSE m2]]

\* as mapMultiRecord_SE, but the slot is taken before the length is read back
mapMultiRecord_SE_OffByOne(collection, multiRecord) ==
    LET ptrs == Append(collection.multiRecordPtrs, multiRecord)
        bk == SeqKey(multiRecord.bcSeq)
        sk == SeqKey(multiRecord.seq)
        m1 == MapTouch(collection.bcMap, bk)
        ok == sk \notin DOMAIN m1[bk]
        new_idx == Len(ptrs)
    IN  [ok |-> ok,
         ret |-> new_idx - 1,
         coll |-> [multiRecordPtrs |-> ptrs,
                   bcMap |-> IF ok THEN [m1 EXCEPT ![bk] = MapPut(@, sk, new_idx)]
                                   ELSE m1]]

\* as mapMultiRecord_SE, without the SEQAN_CHECK: the key is bound to the new
\* slot whether or not it was bound
mapMultiRecord_SE_NoCheck(collection, multiRecord) ==
    LET ptrs == Append(collection.multiRecordPtrs, multiRecord)
        bk == SeqKey(multiRecord.bcSeq)
        sk == SeqKey(multiRecord.seq)
        m1 == MapTouch(collection.bcMap, bk)
        new_idx == Len(ptrs) - 1
    IN  [ok |-> TRUE,
         ret |-> new_idx,
         coll |-> [multiRecordPtrs |-> ptrs,
                   bcMap |-> [m1 EXCEPT ![bk] = MapPut(@, sk, new_idx)]]]

mapMultiRecord_SE(collection, multiRecord) ==
    LET ptrs == Append(collection.multiRecordPtrs, multiRecord)
        bk == SeqKey(multiRecord.bcSeq)
        sk == SeqKey(multiRecord.seq)
        m1 == MapTouch(collection.bcMap, bk)
        ok == sk \notin DOMAIN m1[bk]
        new_idx == Len(ptrs) - 1
    IN  [ok |-> ok,
         ret |-> new_idx,
         coll |-> [multiRecordPtrs |-> ptrs,
                   bcMap |-> IF ok THEN [m1 EXCEPT ![bk] = MapPut(@, sk, new_idx)]
                                   ELSE m1]]

mapMultiRecord(collection, multiRecord) ==
    IF IsPaired(multiRecord) THEN mapMultiRecord_PE(collection, multiRecord)
                             ELSE mapMultiRecord_SE(collection, multiRecord)

updateMultiRecord_SE(multiRecord, record) ==
    LET old_size == Cardinality(multiRecord.ids)
        ids == multiRecord.ids \cup {record.id}
        u == updateMeanQualityValues_Seq(multiRecord.qualities, old_size, record.seq)
    IN  [ok |-> old_size < Cardinality(ids) /\ u.ok,
         mRec |-> [multiRecord EXCEPT !.ids = ids, !.qualities = u.q,
                                      !.nMeanReads = @ + 1]]

updateMultiRecord_PE(multiRecord, record) ==
    LET old_size == Cardinality(multiRecord.ids)
        ids == multiRecord.ids \cup {record.id}
        f == updateMeanQualityValues_Seq(multiRecord.fwQualities, old_size, record.fwSeq)
        r == updateMeanQualityValues_Seq(multiRecord.revQualities, old_size, record.revSeq)
    IN  [ok |-> old_size < Cardinality(ids) /\ f.ok /\ r.ok,
         mRec |-> [multiRecord EXCEPT !.ids = ids, !.fwQualities = f.q,
                                      !.revQualities = r.q, !.nMeanReads = @ + 1]]

updateMultiRecord(multiRecord, record) ==
    IF IsPaired(record) THEN updateMultiRecord_PE(multiRecord, record)
                        ELSE updateMultiRecord_SE(multiRecord, record)

\* as findContainingMultiRecord, but without the test whether the identifier
\* is already a contributor
findContainingMultiRecord_NoIdTest(collection, record, insert) ==
    LET mRecId == findMultiRecordPosition(collection, record)
    IN  IF mRecId # NO_MATCH
        THEN LET oldMultiRecord == getMultiRecord(collection, mRecId)
             IN  IF ~insert
                 THEN [ok |-> TRUE, ret |-> mRecId, coll |-> collection]
                 ELSE LET u == updateMultiRecord(oldMultiRecord, record)
                      IN  [ok |-> u.ok, ret |-> mRecId,
                           coll |-> [collection EXCEPT
                                        !.multiRecordPtrs[mRecId + 1] = u.mRec]]
        ELSE IF ~insert
        THEN [ok |-> TRUE, ret |-> NULL, coll |-> collection]
        ELSE LET n == newMultiRecord(record)
                 m == mapMultiRecord(collection, n.mRec)
             IN  [ok |-> n.ok /\ m.ok, ret |-> m.ret, coll |-> m.coll]

\* as findContainingMultiRecord, but the insert flag is not looked at: the
\* record is always added
findContainingMultiRecord_IgnoresInsert(collection, record, insert) ==
    LET mRecId == findMultiRecordPosition(collection, record)
    IN  IF mRecId # NO_MATCH
        THEN LET oldMultiRecord == getMultiRecord(collection, mRecId)
             IN  IF record.id \in oldMultiRecord.ids
                 THEN [ok |-> TRUE, ret |-> mRecId, coll |-> collection]
                 ELSE LET u == updateMultiRecord(oldMultiRecord, record)
                      IN  [ok |-> u.ok, ret |-> mRecId,
                           coll |-> [collection EXCEPT
                                        !.multiRecordPtrs[mRecId + 1] = u.mRec]]
        ELSE LET n == newMultiRecord(record)
                 m == mapMultiRecord(collection, n.mRec)
             IN  [ok |-> n.ok /\ m.ok, ret |-> m.ret, coll |-> m.coll]

\* findContainingMultiRecord(collection, record, insert): the collection
\* afterwards, the slot of the multi record pointed to (or NULL), and whether
\* every SEQAN_CHECK on the way held
findContainingMultiRecord(collection, record, insert) ==
    LET mRecId == findMultiRecordPosition(collection, record)
    IN  IF mRecId # NO_MATCH
        THEN LET oldMultiRecord == getMultiRecord(collection, mRecId)
             IN  IF record.id \in oldMultiRecord.ids
                 THEN [ok |-> TRUE, ret |-> mRecId, coll |-> collection]
                 ELSE IF ~insert
                 THEN [ok |-> TRUE, ret |-> mRecId, coll |-> collection]
                 ELSE LET u == updateMultiRecord(oldMultiRecord, record)
                      IN  [ok |-> u.ok, ret |-> mRecId,
                           coll |-> [collection EXCEPT
                                        !.multiRecordPtrs[mRecId + 1] = u.mRec]]
        ELSE IF ~insert
        THEN [ok |-> TRUE, ret |-> NULL, coll |-> collection]
        ELSE LET n == newMultiRecord(record)
                 m == mapMultiRecord(collection, n.mRec)
             IN  [ok |-> n.ok /\ m.ok, ret |-> m.ret, coll |-> m.coll]

\* mergeRecord(collection, rec)
mergeRecord(collection, rec) ==
    LET f == findContainingMultiRecord(collection, toFastqRecordSkel(rec), FALSE)
    IN  IF f.ret # NULL
        THEN LET u == updateMeanQualityValues_MR(getMultiRecord(collection, f.ret), rec)
             IN  [ok |-> u.ok, ret |-> f.ret,
                  coll |-> [collection EXCEPT !.multiRecordPtrs[f.ret + 1] = u.mRec]]
        ELSE LET appended == [collection EXCEPT
                                 !.multiRecordPtrs = Append(@, rec)]
                 newIdx == Len(appended.multiRecordPtrs) - 1
                 m == mapMultiRecord(appended, getMultiRecord(appended, newIdx))
             IN  [ok |-> m.ok, ret |-> newIdx, coll |-> m.coll]

\* ------------------------------------------------------------------------
\* getBarcodeStats
\* ------------------------------------------------------------------------
\* the order in which a map is iterated: some fixed enumeration of its keys
RECURSIVE IterOrder(_)
IterOrder(S) == IF S = {} THEN <<>>
                ELSE LET k == CHOOSE x \in S : TRUE IN <<k>> \o IterOrder(S \ {k})

\* the slots bound under one barcode, in iteration order
SlotsUnder_SE(seqMap) == [i \in 1..Cardinality(DOMAIN seqMap) |->
                             seqMap[IterOrder(DOMAIN seqMap)[i]]]

RECURSIVE Flatten(_)
Flatten(ss) == IF Len(ss) = 0 THEN <<>> ELSE ss[1] \o Flatten(Tail(ss))

SlotsUnder_PE(fwSeqMap) ==
    Flatten([i \in 1..Cardinality(DOMAIN fwSeqMap) |->
                SlotsUnder_SE(fwSeqMap[IterOrder(DOMAIN fwSeqMap)[i]])])

EmptyStats == [bcSeqs |-> <<>>, nReads |-> <<>>, nUniqueReads |-> <<>>,
               nTotalUniqueReads |-> 0, nTotalReads |-> 0]

\* as StatsStep, but every multi record counts as one read
StatsStep_CountsRecords(coll, stats, bc, slots) ==
    LET sizes == [i \in 1..Len(slots) |-> Cardinality(getMultiRecord(coll, slots[i]).ids)]
        cnt == Len(slots)
        uCnt == Cardinality({i \in 1..Len(slots) : sizes[i] > 0})
    IN  IF cnt > 0
        THEN [bcSeqs |-> Append(stats.bcSeqs, bc),
              nReads |-> Append(stats.nReads, cnt),
              nUniqueReads |-> Append(stats.nUniqueReads, uCnt),
              nTotalUniqueReads |-> stats.nTotalUniqueReads + uCnt,
              nTotalReads |-> stats.nTotalReads + cnt]
        ELSE stats

\* as StatsStep, but the two grand totals take each other's increment
StatsStep_TotalsSwapped(coll, stats, bc, slots) ==
    LET sizes == [i \in 1..Len(slots) |-> Cardinality(getMultiRecord(coll, slots[i]).ids)]
        cnt == SumSeq(sizes)
        uCnt == Cardinality({i \in 1..Len(slots) : sizes[i] > 0})
    IN  IF cnt > 0
        THEN [bcSeqs |-> Append(stats.bcSeqs, bc),
              nReads |-> Append(stats.nReads, cnt),
              nUniqueReads |-> Append(stats.nUniqueReads, uCnt),
              nTotalUniqueReads |-> stats.nTotalUniqueReads + cnt,
              nTotalReads |-> stats.nTotalReads + uCnt]
        ELSE stats

\* as StatsStep, but the reads of a barcode are also given as its number of
\* unique contents
StatsStep_UniqueIsReads(coll, stats, bc, slots) ==
    LET sizes == [i \in 1..Len(slots) |-> Cardinality(getMultiRecord(coll, slots[i]).ids)]
        cnt == SumSeq(sizes)
    IN  IF cnt > 0
        THEN [bcSeqs |-> Append(stats.bcSeqs, bc),
              nReads |-> Append(stats.nReads, cnt),
              nUniqueReads |-> Append(stats.nUniqueReads, cnt),
              nTotalUniqueReads |-> stats.nTotalUniqueReads + cnt,
              nTotalReads |-> stats.nTotalReads + cnt]
        ELSE stats

\* one pass of the loop over the barcodes: slots is the list of slots bound
\* under barcode bc
StatsStep(coll, stats, bc, slots) ==
    LET sizes == [i \in 1..Len(slots) |-> Cardinality(getMultiRecord(coll, slots[i]).ids)]
        cnt == SumSeq(sizes)
        uCnt == Cardinality({i \in 1..Len(slots) : sizes[i] > 0})
    IN  IF cnt > 0
        THEN [bcSeqs |-> Append(stats.bcSeqs, bc),
              nReads |-> Append(stats.nReads, cnt),
              nUniqueReads |-> Append(stats.nUniqueReads, uCnt),
              nTotalUniqueReads |-> stats.nTotalUniqueReads + uCnt,
              nTotalReads |-> stats.nTotalReads + cnt]
        ELSE stats

RECURSIVE StatsLoop(_, _, _, _)
StatsLoop(coll, pe, bcs, stats) ==
    IF Len(bcs) = 0 THEN stats
    ELSE StatsLoop(coll, pe, Tail(bcs),
                   StatsStep(coll, stats, bcs[1],
                             IF pe THEN SlotsUnder_PE(coll.bcMap[bcs[1]])
                                   ELSE SlotsUnder_SE(coll.bcMap[bcs[1]])))

getBarcodeStats_SE(coll) == StatsLoop(coll, FALSE, IterOrder(DOMAIN coll.bcMap), EmptyStats)

getBarcodeStats_PE(coll) == StatsLoop(coll, TRUE, IterOrder(DOMAIN coll.bcMap), EmptyStats)

getBarcodeStats(coll, pe) == IF pe THEN getBarcodeStats_PE(coll) ELSE getBarcodeStats_SE(coll)

\* ------------------------------------------------------------------------
\* State
\* ------------------------------------------------------------------------
VARIABLES
    paired,           \* TSequencingSpec of the collection: PairedEnd or SingleEnd
    multiRecordPtrs,  \* collection.multiRecordPtrs
    bcMap,            \* collection.bcMap
    rejectEvents,     \* String<RejectEvent> owned by the caller
    inStreams,        \* [remaining, totalInBytes]: records the reader still holds
    options,          \* CdrOptions
    pc,               \* "idle", "loop" (inside readRecords), "returned"
    count,            \* readRecords: parameter count
    complCount,       \* readRecords: local complCount
    rec,              \* readRecords: the record buffer rec
    progBar,          \* readRecords: "NULL" or "bar"
    tsfb,             \* readRecords: local tsfb of the last iteration
    r,                \* readRecords: local r of the last iteration
    raw,              \* the raw record the last iteration took from the reader
    qcCalled,         \* whether the last iteration evaluated qualityControl
    ret,              \* value returned by the last readRecords call
    batch,            \* history of the running readRecords call: nAccepted, the
                      \* records whose verdict was NONE; acceptedKeys, their
                      \* <<identifier, content key>>; startRemaining, the records
                      \* the reader held at entry; prevKeys, the content keys
                      \* indexed at entry; startEvents, the reject events at entry;
                      \* refRec, refColl, refOk: the record buffer, the collection
                      \* and the absence of a rejection in a second run of the
                      \* call that is given only the records accepted so far
    nCalls,           \* readRecords calls started
    last,             \* the last direct call on the collection and its result
    folded,           \* the records folded one after another into the empty collection
    merged,           \* the multi records merged one after another into the multi
                      \* record made of the folded records
    split,            \* a direct call of splitBarcodeSeq: its arguments and, once
                      \* done, the value returned and the arguments as left
    status            \* "ok", "aborted" (failed SEQAN_CHECK), "crashed"

vars == <<paired, multiRecordPtrs, bcMap, rejectEvents, inStreams, options, pc, count,
          complCount, rec, progBar, tsfb, r, raw, qcCalled, ret, batch, nCalls,
          last, folded, merged, split, status>>

readVars == <<inStreams, pc, count, complCount, rec, progBar, tsfb, r, raw, qcCalled,
              ret, batch, nCalls, rejectEvents, folded, merged, split>>

Coll == [multiRecordPtrs |-> multiRecordPtrs, bcMap |-> bcMap]

SetColl(c) == multiRecordPtrs' = c.multiRecordPtrs /\ bcMap' = c.bcMap

inStreamsAtEnd(s) == s.remaining = 0

\* the content key of a record or of a multi record
KeyOf(x) ==
    IF IsPaired(x) THEN <<SeqKey(x.bcSeq), SeqKey(x.fwSeq), SeqKey(x.revSeq)>>
                   ELSE <<SeqKey(x.bcSeq), SeqKey(x.seq)>>

\* the entries of an index as <<content key, slot>>
IndexEntriesOf(pe, m) ==
    IF pe
    THEN UNION {UNION {{<<<<b, f, x>>, m[b][f][x]>> : x \in DOMAIN m[b][f]} :
                          f \in DOMAIN m[b]} : b \in DOMAIN m}
    ELSE UNION {{<<<<b, x>>, m[b][x]>> : x \in DOMAIN m[b]} : b \in DOMAIN m}

IndexEntries == IndexEntriesOf(paired, bcMap)

\* ------------------------------------------------------------------------
\* Inputs
\* ------------------------------------------------------------------------
A10 == Q("A", 10)
A30 == Q("A", 30)
C10 == Q("C", 10)
C30 == Q("C", 30)
N30 == Q("N", 30)

\* contents of the records handed to the collection directly: two with the
\* same key and different qualities, one with another barcode, one with an
\* empty payload, one with the same barcode and another payload
Contents_SE ==
    { [bcSeq |-> <<>>, seq |-> <<A30, C10>>],
      [bcSeq |-> <<>>, seq |-> <<A10, C30>>],
      [bcSeq |-> <<A30>>, seq |-> <<A30, C10>>],
      [bcSeq |-> <<A30>>, seq |-> <<>>],
      [bcSeq |-> <<>>, seq |-> <<C10>>] }

Contents_PE ==
    { [bcSeq |-> <<>>, fwSeq |-> <<A30>>, revSeq |-> <<A30, C10>>],
      [bcSeq |-> <<>>, fwSeq |-> <<A10>>, revSeq |-> <<A10, C30>>],
      [bcSeq |-> <<A30>>, fwSeq |-> <<A30>>, revSeq |-> <<A30, C10>>],
      [bcSeq |-> <<A30>>, fwSeq |-> <<>>, revSeq |-> <<A30, C10>>],
      [bcSeq |-> <<>>, fwSeq |-> <<A30>>, revSeq |-> <<C10>>] }

WithId(c, id) ==
    IF IsPaired(c) THEN [id |-> id, bcSeq |-> c.bcSeq, fwSeq |-> c.fwSeq, revSeq |-> c.revSeq]
                   ELSE [id |-> id, bcSeq |-> c.bcSeq, seq |-> c.seq]

Records_SE == {WithId(c, id) : c \in Contents_SE, id \in Ids}

Records_PE == {WithId(c, id) : c \in Contents_PE, id \in Ids}

Records(pe) == IF pe THEN Records_PE ELSE Records_SE

SameKey(x, y) ==
    findMultiRecordPosition(mapMultiRecord(EmptyCollection, newMultiRecord(x).mRec).coll, y)
        # NO_MATCH

\* multi records handed to mergeRecord: built by the code from one record, or
\* from two records of the same content with different identifiers
BuiltFrom(recs) ==
    {newMultiRecord(x).mRec : x \in recs}
    \cup {updateMultiRecord(newMultiRecord(p[1]).mRec, p[2]).mRec :
            p \in {q \in recs \X recs : q[1].id = 1 /\ q[2].id = 2 /\ SameKey(q[1], q[2])}}

MultiRecords_SE == BuiltFrom(Records_SE)

MultiRecords_PE == BuiltFrom(Records_PE)

MultiRecords(pe) == IF pe THEN MultiRecords_PE ELSE MultiRecords_SE

\* raw reads held by the reader
RawSeqs == {<<A30>>, <<N30, A10>>, <<A10, A30, C30>>, <<A30, A10, C10>>}

RawRecords(pe) ==
    IF pe THEN [id : 1..2, fwSeq : {<<A30>>, <<A10, A30, C30>>, <<A30, A10, C10>>},
                revSeq : {<<A30>>, <<A10, A30, C30>>}]
          ELSE [id : 1..2, seq : RawSeqs]

OptionSamples ==
    { [barcodeLength |-> 0, barcodeVDJRead |-> FALSE, minReadLength |-> 2,
       singleEndFallback |-> FALSE, bcQmin |-> 0, qmin |-> 0],
      [barcodeLength |-> 1, barcodeVDJRead |-> FALSE, minReadLength |-> 1,
       singleEndFallback |-> TRUE, bcQmin |-> 20, qmin |-> 0],
      [barcodeLength |-> 2, barcodeVDJRead |-> TRUE, minReadLength |-> 1,
       singleEndFallback |-> TRUE, bcQmin |-> 0, qmin |-> 20],
      [barcodeLength |-> 1, barcodeVDJRead |-> TRUE, minReadLength |-> 2,
       singleEndFallback |-> FALSE, bcQmin |-> 0, qmin |-> 0] }

NoSplit == [kind |-> "none", in |-> <<>>, barcodeVDJRead |-> FALSE, barcodeLength |-> 0,
            done |-> FALSE, ret |-> FALSE, out |-> <<>>]

NoCall == [op |-> "none", insert |-> FALSE, case |-> "new", ret |-> NULL, arg |-> <<>>]

\* ------------------------------------------------------------------------
\* Initial states
\* ------------------------------------------------------------------------
InitCommon ==
    /\ multiRecordPtrs = <<>>
    /\ bcMap = EmptyMap
    /\ rejectEvents = <<>>
    /\ pc = "idle"
    /\ count = 0
    /\ complCount = 0
    /\ rec = DefaultRecord(paired)
    /\ progBar = "NULL"
    /\ tsfb = FALSE
    /\ r = "NONE"
    /\ raw = DefaultRecord(paired)
    /\ qcCalled = FALSE
    /\ ret = FALSE
    /\ batch = [nAccepted |-> 0, acceptedKeys |-> {}, startRemaining |-> 0, prevKeys |-> {},
                startEvents |-> <<>>, refRec |-> DefaultRecord(paired),
                refColl |-> EmptyCollection, refOk |-> TRUE]
    /\ nCalls = 0
    /\ last = NoCall
    /\ folded = <<>>
    /\ merged = <<>>
    /\ status = "ok"

\* a reader holding up to MaxRecords records
Init ==
    /\ paired \in BOOLEAN
    /\ InitCommon
    /\ split = NoSplit
    /\ inStreams \in [remaining : 0..MaxRecords, totalInBytes : {0, 1}]
    /\ options \in OptionSamples

\* no reader: the collection is driven by direct calls
InitColl ==
    /\ paired \in BOOLEAN
    /\ InitCommon
    /\ split = NoSplit
    /\ inStreams = [remaining |-> 0, totalInBytes |-> 0]
    /\ options = CHOOSE o \in OptionSamples : o.barcodeLength = 0

\* ------------------------------------------------------------------------
\* Direct calls on the collection
\* ------------------------------------------------------------------------
\* what a call of findContainingMultiRecord / mergeRecord meets:
\*   "known"  the content is indexed and the identifier is a contributor
\*   "fold"   the content is indexed, the identifier is not a contributor
\*   "new"    the content is not indexed
CaseOf(coll, record) ==
    LET pos == findMultiRecordPosition(coll, record)
    IN  IF pos = NO_MATCH THEN "new"
        ELSE IF record.id \in getMultiRecord(coll, pos).ids THEN "known" ELSE "fold"

\* the reads averaged into the multi records of a collection: the model is
\* bounded by keeping this at most MaxWeight
TotalWeight(coll) ==
    SumSeq([i \in 1..Len(coll.multiRecordPtrs) |-> coll.multiRecordPtrs[i].nMeanReads])

FindContaining(record, insert) ==
    /\ pc # "loop" /\ status = "ok"
    /\ LET f == findContainingMultiRecord(Coll, record, insert)
       IN  /\ TotalWeight(f.coll) <= MaxWeight
           /\ IF f.ok THEN SetColl(f.coll) /\ status' = status
                      ELSE UNCHANGED <<multiRecordPtrs, bcMap>> /\ status' = "aborted"
           /\ last' = [op |-> "find", insert |-> insert, case |-> CaseOf(Coll, record),
                       ret |-> f.ret, arg |-> record]
    /\ UNCHANGED <<paired, options>>
    /\ UNCHANGED readVars

MergeRecord(mRec) ==
    /\ pc # "loop" /\ status = "ok"
    /\ LET m == mergeRecord(Coll, mRec)
       IN  /\ TotalWeight(m.coll) <= MaxWeight
           /\ IF m.ok THEN SetColl(m.coll) /\ status' = status
                      ELSE UNCHANGED <<multiRecordPtrs, bcMap>> /\ status' = "aborted"
           /\ last' = [op |-> "merge", insert |-> FALSE,
                       case |-> CaseOf(Coll, toFastqRecordSkel(mRec)), ret |-> m.ret,
                       arg |-> mRec]
    /\ UNCHANGED <<paired, options>>
    /\ UNCHANGED readVars

Clear ==
    /\ pc # "loop" /\ status = "ok"
    /\ SetColl(clear(Coll))
    /\ last' = [op |-> "clear", insert |-> FALSE, case |-> "new", ret |-> NULL,
                arg |-> <<>>]
    /\ UNCHANGED <<paired, options, status>>
    /\ UNCHANGED readVars

NextColl ==
    \/ \E record \in Records(paired), insert \in BOOLEAN : FindContaining(record, insert)
    \/ \E mRec \in MultiRecords(paired) : MergeRecord(mRec)
    \/ Clear

SpecColl == InitColl /\ [][NextColl]_vars

\* ------------------------------------------------------------------------
\* readRecords(collection, rejectEvents, inStreams, options, count)
\* ------------------------------------------------------------------------
\* as RejectEvent, but the reason is not stored
RejectEvent_DropsReason(id, reason) == [id |-> id, reason |-> "NONE"]

RejectEvent(id, reason) == [id |-> id, reason |-> reason]

\* entry of the call up to the loop: the progress bar exists only when the
\* reader reports a byte volume; the collection is cleared
ReadRecordsEnter(cnt) ==
    /\ pc # "loop" /\ status = "ok"
    /\ progBar' = IF inStreams.totalInBytes > 0 THEN "bar" ELSE "NULL"
    /\ SetColl(clear(Coll))
    /\ rec' = DefaultRecord(paired)
    /\ count' = cnt
    /\ complCount' = 0
    /\ batch' = [nAccepted |-> 0, acceptedKeys |-> {},
                 startRemaining |-> inStreams.remaining,
                 prevKeys |-> {e[1] : e \in IndexEntries},
                 startEvents |-> rejectEvents,
                 refRec |-> DefaultRecord(paired),
                 refColl |-> clear(Coll),
                 refOk |-> TRUE]
    /\ nCalls' = nCalls + 1
    /\ pc' = "loop"
    /\ UNCHANGED <<paired, rejectEvents, inStreams, options, tsfb, r, raw, qcCalled, ret,
                   last, folded, merged, split, status>>

\* a call of readRecords by a caller that makes at most MaxCalls calls
ReadRecordsBegin(cnt) == nCalls < MaxCalls /\ ReadRecordsEnter(cnt)

\* as LimitReached, but one record late
LimitReached_OneLate == count > 0 /\ complCount = count + 1

\* the test at the head of the loop body
LimitReached == count > 0 /\ complCount = count

\* progBar->clear() through a null pointer is undefined: the call either
\* goes through without effect or the process dies
ProgBarClear(crash) ==
    IF progBar = "NULL" /\ crash THEN status' = "crashed" ELSE status' = status

\* as ReadRecordsLimit, but the bounded early return gives false
ReadRecordsLimit_ReturnsFalse(crash) ==
    /\ pc = "loop" /\ status = "ok"
    /\ ~inStreamsAtEnd(inStreams)
    /\ LimitReached
    /\ ProgBarClear(crash)
    /\ IF status' = "ok"
       THEN pc' = "returned" /\ ret' = FALSE
       ELSE UNCHANGED <<pc, ret>>
    /\ UNCHANGED <<paired, multiRecordPtrs, bcMap, rejectEvents, inStreams, options, count,
                   complCount, rec, progBar, tsfb, r, raw, qcCalled, batch, nCalls, last,
                   folded, merged, split>>

\* loop iteration that finds complCount == count: bounded early return
ReadRecordsLimit(crash) ==
    /\ pc = "loop" /\ status = "ok"
    /\ ~inStreamsAtEnd(inStreams)
    /\ LimitReached
    /\ ProgBarClear(crash)
    /\ IF status' = "ok"
       THEN pc' = "returned" /\ ret' = ~inStreamsAtEnd(inStreams)
       ELSE UNCHANGED <<pc, ret>>
    /\ UNCHANGED <<paired, multiRecordPtrs, bcMap, rejectEvents, inStreams, options, count,
                   complCount, rec, progBar, tsfb, r, raw, qcCalled, batch, nCalls, last,
                   folded, merged, split>>

\* the body of the loop from the read to the verdict: the record is read
\* into the buffer, with the barcode split off when barcodeLength > 0, and
\* unless the read was too short for the barcode the quality control runs
ReadAndControl(buffer, rawRec, outcome) ==
    LET rd == IF options.barcodeLength > 0
              THEN readRecord_Split(buffer, rawRec, options.barcodeVDJRead,
                                    options.barcodeLength)
              ELSE [ret |-> TRUE, rec |-> readRecord(buffer, rawRec)]
        t  == ~rd.ret
        qc == qualityControl(rd.rec, options, outcome)
    IN  [tsfb |-> t,
         r    |-> IF t THEN "TOO_SHORT_FOR_BARCODE" ELSE qc.r,
         rec  |-> IF t THEN rd.rec ELSE qc.rec]

\* loop iteration that reads one record, counts it, runs the quality control
\* and adds the record to the collection or to the reject events
ReadRecordsIter(rawRec, outcome) ==
    /\ pc = "loop" /\ status = "ok"
    /\ ~inStreamsAtEnd(inStreams)
    /\ ~LimitReached
    /\ LET p  == ReadAndControl(rec, rawRec, outcome)
           t  == p.tsfb
           rr == p.r
           rc == p.rec
           f  == findContainingMultiRecord(Coll, rc, TRUE)
           p2 == ReadAndControl(batch.refRec, rawRec, outcome)
           f2 == findContainingMultiRecord(batch.refColl, p2.rec, TRUE)
       IN  /\ inStreams' = [inStreams EXCEPT !.remaining = @ - 1]
           /\ raw' = rawRec
           /\ complCount' = complCount + 1
           /\ tsfb' = t
           /\ qcCalled' = ~t
           /\ r' = rr
           /\ rec' = rc
           /\ IF rr = "NONE"
              THEN /\ IF f.ok THEN SetColl(f.coll) /\ status' = status
                              ELSE UNCHANGED <<multiRecordPtrs, bcMap>> /\ status' = "aborted"
                   /\ batch' = [batch EXCEPT !.nAccepted = @ + 1,
                                             !.acceptedKeys = @ \cup {<<rc.id, KeyOf(rc)>>},
                                             !.refRec = p2.rec,
                                             !.refOk = @ /\ p2.r = "NONE",
                                             !.refColl = IF p2.r = "NONE" /\ f2.ok
                                                         THEN f2.coll ELSE @]
                   /\ UNCHANGED rejectEvents
              ELSE /\ rejectEvents' = Append(rejectEvents, RejectEvent(rc.id, rr))
                   /\ UNCHANGED <<multiRecordPtrs, bcMap, batch, status>>
    /\ UNCHANGED <<paired, options, pc, count, progBar, ret, nCalls, last, folded, merged,
                   split>>

\* the loop ends because the reader is at its end
ReadRecordsEnd(crash) ==
    /\ pc = "loop" /\ status = "ok"
    /\ inStreamsAtEnd(inStreams)
    /\ ProgBarClear(crash)
    /\ IF status' = "ok"
       THEN pc' = "returned" /\ ret' = FALSE /\ progBar' = "NULL"
       ELSE UNCHANGED <<pc, ret, progBar>>
    /\ UNCHANGED <<paired, multiRecordPtrs, bcMap, rejectEvents, inStreams, options, count,
                   complCount, rec, tsfb, r, raw, qcCalled, batch, nCalls, last,
                   folded, merged, split>>

ReadRecordsRead ==
    \E rawRec \in RawRecords(paired) :
       \E outcome \in AvgOutcomes(rawRec, options.singleEndFallback) :
          ReadRecordsIter(rawRec, outcome)

Counts == 0..2

Next ==
    \/ \E cnt \in Counts : ReadRecordsBegin(cnt)
    \/ \E crash \in BOOLEAN : ReadRecordsLimit(crash)
    \/ ReadRecordsRead
    \/ \E crash \in BOOLEAN : ReadRecordsEnd(crash)

Spec == Init /\ [][Next]_vars

\* ------------------------------------------------------------------------
\* Folding records of one content into an empty collection
\* ------------------------------------------------------------------------
FoldRecords(pe) ==
    {WithId(c, id) : c \in (IF pe THEN Contents_PE ELSE Contents_SE), id \in 1..MaxFold}

\* findContainingMultiRecord(collection, record, true) for a record that has
\* the content of the records folded so far and an identifier none of them has
Fold(record) ==
    /\ status = "ok"
    /\ Len(folded) < MaxFold
    /\ \A j \in 1..Len(folded) : SameKey(folded[j], record) /\ folded[j].id # record.id
    /\ LET f == findContainingMultiRecord(Coll, record, TRUE)
       IN  /\ IF f.ok THEN SetColl(f.coll) /\ status' = status
                      ELSE UNCHANGED <<multiRecordPtrs, bcMap>> /\ status' = "aborted"
           /\ last' = [op |-> "find", insert |-> TRUE, case |-> CaseOf(Coll, record),
                       ret |-> f.ret, arg |-> record]
    /\ folded' = Append(folded, record)
    /\ UNCHANGED <<paired, options, inStreams, pc, count, complCount, rec, progBar, tsfb, r,
                   raw, qcCalled, ret, batch, nCalls, rejectEvents, merged, split>>

NextFold == \E record \in FoldRecords(paired) : Fold(record)

SpecFold == InitColl /\ [][NextFold]_vars

\* ------------------------------------------------------------------------
\* Merging multi records into the multi record made of the folded records
\* ------------------------------------------------------------------------
IdsOf(recs, mRecs) ==
    {recs[j].id : j \in 1..Len(recs)} \cup UNION {mRecs[j].ids : j \in 1..Len(mRecs)}

\* findContainingMultiRecord(collection, record, true) as in Fold, before the
\* first merge
FoldFirst(record) == merged = <<>> /\ Fold(record)

\* mergeRecord(collection, mRec) for a multi record that has the content of
\* the folded records and holds reads none of which was folded or merged
MergeInto(mRec) ==
    /\ status = "ok"
    /\ Len(folded) >= 1
    /\ Len(merged) < MaxMerge
    /\ KeyOf(mRec) = KeyOf(folded[1])
    /\ mRec.ids \cap IdsOf(folded, merged) = {}
    /\ LET m == mergeRecord(Coll, mRec)
       IN  /\ IF m.ok THEN SetColl(m.coll) /\ status' = status
                      ELSE UNCHANGED <<multiRecordPtrs, bcMap>> /\ status' = "aborted"
           /\ last' = [op |-> "merge", insert |-> FALSE,
                       case |-> CaseOf(Coll, toFastqRecordSkel(mRec)), ret |-> m.ret,
                       arg |-> mRec]
    /\ merged' = Append(merged, mRec)
    /\ UNCHANGED <<paired, options, inStreams, pc, count, complCount, rec, progBar, tsfb, r,
                   raw, qcCalled, ret, batch, nCalls, rejectEvents, folded, split>>

NextMerge ==
    \/ \E record \in FoldRecords(paired) : FoldFirst(record)
    \/ \E mRec \in MultiRecords(paired) : MergeInto(mRec)

SpecMerge == InitColl /\ [][NextMerge]_vars

\* ------------------------------------------------------------------------
\* Direct calls of splitBarcodeSeq
\* ------------------------------------------------------------------------
BarcodeLengths == 0..MaxBarcodeLength

SplitSeqs == {<<>>, <<A30>>, <<A30, C10>>, <<C10, A30, N30>>}

\* what bcSeq holds before the call
SplitBarcodes == {<<>>, <<C30>>, <<C30, A10, A10, A10>>}

SplitArgs(kind, in, vdj, len) ==
    [kind |-> kind, in |-> in, barcodeVDJRead |-> vdj, barcodeLength |-> len,
     done |-> FALSE, ret |-> FALSE, out |-> <<>>]

SplitInputs_Seq ==
    {SplitArgs("seq", [seq |-> s, bcSeq |-> b], FALSE, len) :
        s \in SplitSeqs, b \in SplitBarcodes, len \in BarcodeLengths}

SplitInputs_SE ==
    {SplitArgs("rec", [id |-> 1, bcSeq |-> b, seq |-> s], vdj, len) :
        s \in SplitSeqs, b \in SplitBarcodes, vdj \in BOOLEAN, len \in BarcodeLengths}

SplitInputs_PE ==
    {SplitArgs("rec", [id |-> 1, bcSeq |-> b, fwSeq |-> f, revSeq |-> s], vdj, len) :
        f \in {<<A30>>, <<A10, C30>>}, s \in {<<>>, <<C10>>, <<C10, A30, N30>>},
        b \in {<<>>, <<C30>>}, vdj \in BOOLEAN, len \in BarcodeLengths}

InitSplit ==
    /\ split \in SplitInputs_Seq \cup SplitInputs_SE \cup SplitInputs_PE
    /\ paired = (split.kind = "rec" /\ IsPaired(split.in))
    /\ InitCommon
    /\ inStreams = [remaining |-> 0, totalInBytes |-> 0]
    /\ options = CHOOSE o \in OptionSamples : o.barcodeLength = 0

\* splitBarcodeSeq(seq, bcSeq, barcodeLength)
SplitSeq ==
    /\ split.kind = "seq" /\ ~split.done
    /\ LET s == splitBarcodeSeq(split.in.seq, split.in.bcSeq, split.barcodeLength)
       IN  split' = [split EXCEPT !.done = TRUE, !.ret = s.ret,
                                  !.out = [seq |-> s.seq, bcSeq |-> s.bcSeq]]
    /\ UNCHANGED <<paired, multiRecordPtrs, bcMap, rejectEvents, inStreams, options, pc,
                   count, complCount, rec, progBar, tsfb, r, raw, qcCalled, ret, batch,
                   nCalls, last, folded, merged, status>>

\* splitBarcodeSeq(rec, barcodeVDJRead, barcodeLength)
SplitRec ==
    /\ split.kind = "rec" /\ ~split.done
    /\ LET s == splitBarcodeSeq_Rec(split.in, split.barcodeVDJRead, split.barcodeLength)
       IN  split' = [split EXCEPT !.done = TRUE, !.ret = s.ret, !.out = s.rec]
    /\ UNCHANGED <<paired, multiRecordPtrs, bcMap, rejectEvents, inStreams, options, pc,
                   count, complCount, rec, progBar, tsfb, r, raw, qcCalled, ret, batch,
                   nCalls, last, folded, merged, status>>

NextSplit == SplitSeq \/ SplitRec

SpecSplit == InitSplit /\ [][NextSplit]_vars

\* ------------------------------------------------------------------------
\* Properties
\* ------------------------------------------------------------------------
\* arithmetic mean of the qualities at position i of payload field of recs
MeanAt(recs, field, i) ==
    Norm(SumSeq([j \in 1..Len(recs) |-> getQualityValue(recs[j][field][i])]), Len(recs))

MeanVector(recs, field) == [i \in 1..Len(recs[1][field]) |-> MeanAt(recs, field, i)]

C2_ResubmissionIsNoOp ==
    [][(last'.op = "find" /\ last'.insert /\ CaseOf(Coll, last'.arg) = "known")
          => /\ multiRecordPtrs' = multiRecordPtrs
             /\ bcMap' = bcMap
             /\ status' = "ok"
             /\ last'.ret # NULL
             /\ last'.ret = findMultiRecordPosition(Coll, last'.arg)]_vars

C2_Witness ==
    /\ ~paired
    /\ last.op = "find" /\ last.insert /\ last.case = "known"
    /\ status = "ok"
    /\ multiRecordPtrs[last.ret + 1].ids = {last.arg.id}
    /\ multiRecordPtrs[last.ret + 1].nMeanReads = 1
    /\ multiRecordPtrs[last.ret + 1].qualities
          # [i \in 1..Len(last.arg.seq) |-> <<getQualityValue(last.arg.seq[i]), 1>>]

\* C3: in every multi record of the store the number of identifiers equals
\* the number of reads averaged into its mean qualities
C3_WeightConsistency ==
    \A s \in 1..Len(multiRecordPtrs) :
        Cardinality(multiRecordPtrs[s].ids) = multiRecordPtrs[s].nMeanReads

\* C4: every entry of the index maps its key to a slot below the length of
\* the store, the multi record in that slot has the content of the key, and
\* no two keys map to the same slot
C4_IndexConsistency ==
    /\ \A e \in IndexEntries :
          /\ e[2] >= 0 /\ e[2] < Len(multiRecordPtrs)
          /\ KeyOf(multiRecordPtrs[e[2] + 1]) = e[1]
    /\ \A e1, e2 \in IndexEntries : e1[2] = e2[2] => e1 = e2

C4_Witness ==
    /\ last.op = "merge" /\ last.case = "new"
    /\ Cardinality(IndexEntries) >= 2
    /\ Cardinality(DOMAIN bcMap) >= 2
    /\ Len(multiRecordPtrs) > Cardinality(IndexEntries)

\* ---- properties of readRecords -------------------------------------------
TotalReads == getBarcodeStats(Coll, paired).nTotalReads

\* a step of readRecords that consumes a record
Consumes == pc = "loop" /\ complCount' = complCount + 1

\* the record as read and split, before the quality control
AsRead(rawRec) ==
    IF options.barcodeLength > 0
    THEN readRecord_Split(DefaultRecord(paired), rawRec, options.barcodeVDJRead,
                          options.barcodeLength).rec
    ELSE readRecord(DefaultRecord(paired), rawRec)

\* the raw read the barcode is taken from
BarcodeRead(rawRec) ==
    IF paired THEN (IF options.barcodeVDJRead THEN rawRec.revSeq ELSE rawRec.fwSeq)
              ELSE rawRec.seq

CollUnchanged == multiRecordPtrs' = multiRecordPtrs /\ bcMap' = bcMap

\* C5 as stated: after readRecords has returned, the grand total of reads of
\* getBarcodeStats is the number of records of the batch whose verdict was
\* NONE, also when identifiers repeat
C5_TotalIsAcceptedCount ==
    pc = "returned" => TotalReads = batch.nAccepted

\* C5 amended: after readRecords has returned, the grand total of reads is the
\* number of different <<identifier, content>> among the accepted records of
\* the batch, which is at most the number of accepted records
C5_TotalIsDistinctAcceptedCount ==
    pc = "returned" =>
        /\ TotalReads = Cardinality(batch.acceptedKeys)
        /\ TotalReads <= batch.nAccepted

C5_Witness ==
    /\ pc = "returned"
    /\ batch.nAccepted >= 2
    /\ Cardinality(batch.acceptedKeys) = 1
    /\ TotalReads = 1

SlotsWith(id) == {s \in 1..Len(multiRecordPtrs) : id \in multiRecordPtrs[s].ids}

AllIds == UNION {multiRecordPtrs[s].ids : s \in 1..Len(multiRecordPtrs)}

\* C6 as stated: within a batch an identifier is in the identifier set of at
\* most one multi record, whatever the content of the records carrying it
C6_IdentifierInOneMultiRecord ==
    pc # "idle" => \A id \in AllIds : Cardinality(SlotsWith(id)) <= 1

\* C6 amended: within a batch an identifier is counted once for each content
\* it was accepted with: the multi records holding it have different content
\* keys and are as many as the different contents of the accepted records
\* carrying it, however many such records were consumed
C6_IdentifierOncePerContent ==
    pc # "idle" =>
        \A id \in AllIds \cup {k[1] : k \in batch.acceptedKeys} :
            /\ \A s1, s2 \in SlotsWith(id) :
                  KeyOf(multiRecordPtrs[s1]) = KeyOf(multiRecordPtrs[s2]) => s1 = s2
            /\ {KeyOf(multiRecordPtrs[s]) : s \in SlotsWith(id)}
                  = {k[2] : k \in {x \in batch.acceptedKeys : x[1] = id}}

C6_Witness ==
    /\ pc # "idle"
    /\ batch.nAccepted = 3
    /\ \E id \in AllIds :
          /\ Cardinality(SlotsWith(id)) = 2
          /\ Cardinality({x \in batch.acceptedKeys : x[1] = id}) = 2
          /\ Cardinality(batch.acceptedKeys) = 2

\* the payload the length check of the original claim looks at
PayloadShort(x) ==
    IF IsPaired(x) THEN Len(x.revSeq) < options.minReadLength
                   ELSE Len(x.seq) < options.minReadLength

\* C7 as stated: a consumed record whose payload is shorter than
\* minReadLength leaves the collection unchanged and appends exactly one
\* RejectEvent with its identifier and the reason READ_TOO_SHORT
C7_ShortReadRejectedAsTooShort ==
    [][(Consumes /\ PayloadShort(AsRead(raw')))
          => /\ CollUnchanged
             /\ rejectEvents' = Append(rejectEvents, RejectEvent(raw'.id, "READ_TOO_SHORT"))]_vars

\* the checks that come before the length check fire on the record as read
EarlierCheckMayFire(x) ==
    \/ contains(x.bcSeq, "N")
    \/ options.bcQmin > 0 /\ anyQualityBelow(x.bcSeq, options.bcQmin)
    \/ options.qmin > 0

\* too short as the length check decides it on the record as read
TooShortByLength(x) ==
    IF IsPaired(x)
    THEN \/ Len(x.revSeq) < options.minReadLength
         \/ Len(x.fwSeq) < options.minReadLength /\ ~options.singleEndFallback
    ELSE Len(x.seq) < options.minReadLength

\* C7 amended: a consumed record that is too short for the length check (single
\* end: the payload is shorter than minReadLength; paired end: the reverse
\* read is shorter, or the forward read is shorter and the single end
\* fallback is off) leaves the collection unchanged and appends exactly one
\* RejectEvent with its identifier; the reason is that of the first failing
\* check, READ_TOO_SHORT when no earlier check (barcode extraction, N in the
\* barcode, barcode base quality, average quality) rejects the record
C7_ShortReadRejectedOnce ==
    [][(Consumes /\ TooShortByLength(AsRead(raw')))
          => /\ CollUnchanged
             /\ r' \in {"TOO_SHORT_FOR_BARCODE", "N_IN_BARCODE", "LOW_QUALITY_BARCODE_BASE",
                        "AVERAGE_QUAL_FAIL", "READ_TOO_SHORT"}
             /\ rejectEvents' = Append(rejectEvents, RejectEvent(raw'.id, r'))
             /\ (r' = "TOO_SHORT_FOR_BARCODE") = tsfb'
             /\ (~tsfb' /\ ~EarlierCheckMayFire(AsRead(raw'))) => r' = "READ_TOO_SHORT"
             /\ r' = "N_IN_BARCODE" => contains(AsRead(raw').bcSeq, "N")
             /\ r' = "LOW_QUALITY_BARCODE_BASE" => options.bcQmin > 0
             /\ r' = "AVERAGE_QUAL_FAIL" => options.qmin > 0]_vars

C7_Witness ==
    /\ pc = "loop" /\ complCount >= 2
    /\ r = "READ_TOO_SHORT"
    /\ Len(multiRecordPtrs) >= 1
    /\ Len(rejectEvents) >= 1
    /\ rejectEvents[Len(rejectEvents)] = RejectEvent(raw.id, "READ_TOO_SHORT")

\* C8: with barcodeLength > 0, a consumed record whose barcode carrying raw
\* read is shorter than barcodeLength is not given to qualityControl, appends
\* exactly one RejectEvent with its identifier and the reason
\* TOO_SHORT_FOR_BARCODE, and leaves the collection unchanged
C8_TooShortForBarcode ==
    [][(Consumes /\ options.barcodeLength > 0
                 /\ Len(BarcodeRead(raw')) < options.barcodeLength)
          => /\ ~qcCalled'
             /\ tsfb'
             /\ rejectEvents' = Append(rejectEvents,
                                       RejectEvent(raw'.id, "TOO_SHORT_FOR_BARCODE"))
             /\ CollUnchanged]_vars

C8_Witness ==
    /\ pc = "loop" /\ complCount >= 2
    /\ options.barcodeLength > 0
    /\ Len(BarcodeRead(raw)) < options.barcodeLength
    /\ tsfb /\ r = "TOO_SHORT_FOR_BARCODE"
    /\ Len(multiRecordPtrs) >= 1
    /\ rejectEvents[Len(rejectEvents)] = RejectEvent(raw.id, "TOO_SHORT_FOR_BARCODE")

\* C9: a call of readRecords starts from an empty store and an empty index;
\* during and after it the collection holds only what the accepted records
\* of this call put there, a content key indexed only before the call is not
\* found, and the slots are 0 .. length - 1
C9_BatchIsolation ==
    pc # "idle" =>
        /\ (complCount = 0 => multiRecordPtrs = <<>> /\ bcMap = EmptyMap)
        /\ \A s \in 1..Len(multiRecordPtrs) : \A id \in multiRecordPtrs[s].ids :
              <<id, KeyOf(multiRecordPtrs[s])>> \in batch.acceptedKeys
        /\ {e[1] : e \in IndexEntries} = {k[2] : k \in batch.acceptedKeys}
        /\ {e[2] : e \in IndexEntries} = 0..(Len(multiRecordPtrs) - 1)
        /\ \A key \in batch.prevKeys \ {k[2] : k \in batch.acceptedKeys} :
              key \notin {e[1] : e \in IndexEntries}

C9_Witness ==
    /\ pc = "returned" /\ nCalls = 2
    /\ Len(multiRecordPtrs) >= 1
    /\ batch.prevKeys \ {k[2] : k \in batch.acceptedKeys} # {}

\* C10: readRecords with count = n > 0 consumes at most n records and returns
\* true exactly when the reader still holds records at the return, so false
\* when the reader held exactly n records; with count = 0 it consumes all
\* records and returns false
C10_ReturnValue ==
    pc = "returned" =>
        LET consumed == batch.startRemaining - inStreams.remaining
        IN  /\ consumed = complCount
            /\ count > 0 => consumed <= count
            /\ ret = ~inStreamsAtEnd(inStreams)
            /\ (count > 0 /\ batch.startRemaining <= count) => (ret = FALSE)
            /\ (count > 0 /\ batch.startRemaining > count) => (ret = TRUE /\ consumed = count)
            /\ count = 0 => (inStreamsAtEnd(inStreams) /\ ret = FALSE
                             /\ consumed = batch.startRemaining)

C10_Witness ==
    /\ pc = "returned"
    /\ count = 2 /\ batch.startRemaining = 2
    /\ complCount = 2
    /\ ret = FALSE

\* ---- properties of mergeRecord and of the probe ---------------------------
\* C11: mergeRecord with a multi record whose content is indexed leaves the
\* destination with the union of its former identifiers and the identifiers
\* of the incoming multi record
C11_MergeUnionsIds ==
    [][(last'.op = "merge" /\ last'.case = "fold" /\ status' = "ok")
          => multiRecordPtrs'[last'.ret + 1].ids
                = multiRecordPtrs[last'.ret + 1].ids \cup last'.arg.ids]_vars

\* C12: findContainingMultiRecord with insert = false changes neither the
\* store nor the index (no map level is created) and raises no check; it
\* returns NULL when the content of the record is not indexed and the multi
\* record the index binds to it otherwise, whether or not the identifier of
\* the record is a contributor
C12_ProbeChangesNothing ==
    [][(last'.op = "find" /\ ~last'.insert)
          => /\ multiRecordPtrs' = multiRecordPtrs
             /\ bcMap' = bcMap
             /\ status' = "ok"
             /\ IF KeyOf(last'.arg) \in {e[1] : e \in IndexEntries}
                THEN /\ last'.ret # NULL
                     /\ <<KeyOf(last'.arg), last'.ret>> \in IndexEntries
                ELSE last'.ret = NULL]_vars

C12_Witness ==
    /\ ~paired
    /\ last.op = "find" /\ ~last.insert /\ last.case = "new"
    /\ last.ret = NULL
    /\ Len(multiRecordPtrs) >= 1
    /\ SeqKey(last.arg.bcSeq) \notin DOMAIN bcMap

Stats == getBarcodeStats(Coll, paired)

\* C13: in the statistics of getBarcodeStats every retained barcode has a
\* number of unique contents that is at least 1 and at most its number of
\* reads, the two grand totals are the sums of the values of the barcodes,
\* and the total of unique contents is at most the total of reads
C13_StatsOrdering ==
    /\ Len(Stats.nReads) = Len(Stats.bcSeqs)
    /\ Len(Stats.nUniqueReads) = Len(Stats.bcSeqs)
    /\ \A i \in 1..Len(Stats.bcSeqs) :
          /\ Stats.nUniqueReads[i] >= 1
          /\ Stats.nUniqueReads[i] <= Stats.nReads[i]
    /\ Stats.nTotalReads = SumSeq(Stats.nReads)
    /\ Stats.nTotalUniqueReads = SumSeq(Stats.nUniqueReads)
    /\ Stats.nTotalUniqueReads <= Stats.nTotalReads

C13_Witness ==
    /\ last.op = "merge" /\ last.case = "fold"
    /\ status = "ok"
    /\ Len(Stats.bcSeqs) >= 1
    /\ Stats.nTotalReads > Stats.nTotalUniqueReads
    /\ \E i \in 1..Len(Stats.bcSeqs) : Stats.nReads[i] > Stats.nUniqueReads[i]

\* ---- outcome of a consumed record ------------------------------------------
\* C14: every record consumed by readRecords is either given to
\* findContainingMultiRecord(insert = true), without an event, or appends
\* exactly one RejectEvent with its identifier and its reason, without a
\* change of the collection; the events present at the entry of the call stay
\* as a prefix of the log, and the events appended by the call are as many as
\* the consumed records whose verdict was not NONE
C14_ExactlyOneOutcome ==
    /\ [](pc # "idle" =>
            /\ Len(rejectEvents) = Len(batch.startEvents) + (complCount - batch.nAccepted)
            /\ SubSeq(rejectEvents, 1, Len(batch.startEvents)) = batch.startEvents)
    /\ [][Consumes =>
            \/ /\ r' = "NONE"
               /\ batch'.nAccepted = batch.nAccepted + 1
               /\ rejectEvents' = rejectEvents
               /\ status' = "ok" =>
                     /\ multiRecordPtrs'
                           = findContainingMultiRecord(Coll, rec', TRUE).coll.multiRecordPtrs
                     /\ bcMap' = findContainingMultiRecord(Coll, rec', TRUE).coll.bcMap
            \/ /\ r' # "NONE"
               /\ batch'.nAccepted = batch.nAccepted
               /\ rejectEvents' = Append(rejectEvents, [id |-> raw'.id, reason |-> r'])
               /\ CollUnchanged]_vars

C14_Witness ==
    /\ pc = "returned" /\ nCalls = 2
    /\ Len(batch.startEvents) >= 1
    /\ Len(rejectEvents) > Len(batch.startEvents)
    /\ batch.nAccepted >= 1
    /\ complCount = 2

\* ---- properties of splitBarcodeSeq ------------------------------------------
\* C15: splitBarcodeSeq(seq, bcSeq, L) with 0 < L <= length(seq) returns true,
\* leaves in bcSeq the first L residues of seq and in seq the rest, so that
\* bcSeq followed by seq is the former seq, whatever bcSeq held; with L = 0 it
\* returns true and leaves seq and bcSeq as they were
C15_SplitTakesPrefix ==
    (split.kind = "seq" /\ split.done) =>
        /\ (split.barcodeLength > 0 /\ split.barcodeLength <= Len(split.in.seq)) =>
              /\ split.ret
              /\ split.out.bcSeq = SubSeq(split.in.seq, 1, split.barcodeLength)
              /\ split.out.seq
                    = SubSeq(split.in.seq, split.barcodeLength + 1, Len(split.in.seq))
              /\ split.out.bcSeq \o split.out.seq = split.in.seq
        /\ split.barcodeLength = 0 =>
              /\ split.ret
              /\ split.out.seq = split.in.seq
              /\ split.out.bcSeq = split.in.bcSeq

C15_Witness ==
    /\ split.kind = "seq" /\ split.done /\ split.ret
    /\ split.barcodeLength = 2
    /\ Len(split.in.seq) = 3
    /\ Len(split.in.bcSeq) = 4
    /\ Len(split.out.bcSeq) = 2 /\ Len(split.out.seq) = 1

\* C16: splitBarcodeSeq(seq, bcSeq, L) with L > length(seq) returns false,
\* leaves bcSeq empty whatever it held, and leaves seq as it was
C16_SplitTooShort ==
    (split.kind = "seq" /\ split.done /\ split.barcodeLength > Len(split.in.seq)) =>
        /\ ~split.ret
        /\ split.out.bcSeq = <<>>
        /\ split.out.seq = split.in.seq

C16_Witness ==
    /\ split.kind = "seq" /\ split.done /\ ~split.ret
    /\ split.barcodeLength = 3
    /\ Len(split.in.seq) = 2
    /\ split.in.bcSeq # <<>>
    /\ split.out.bcSeq = <<>>

\* the read of a record the barcode is taken from, and its other read
BarcodeField(x, vdj) == IF IsPaired(x) THEN (IF vdj THEN "revSeq" ELSE "fwSeq") ELSE "seq"

OtherField(x, vdj) == IF IsPaired(x) THEN (IF vdj THEN "fwSeq" ELSE "revSeq") ELSE "seq"

\* C17: for a paired end record splitBarcodeSeq takes the barcode from the
\* front of fwSeq when barcodeVDJRead is false and from the front of revSeq
\* when it is true, and leaves the other read as it was; for a single end
\* record the barcode is taken from seq whatever barcodeVDJRead is
C17_SplitRecordSource ==
    (split.kind = "rec" /\ split.done) =>
        LET src == BarcodeField(split.in, split.barcodeVDJRead)
            len == split.barcodeLength
        IN  /\ split.out.id = split.in.id
            /\ IsPaired(split.in) =>
                  split.out[OtherField(split.in, split.barcodeVDJRead)]
                     = split.in[OtherField(split.in, split.barcodeVDJRead)]
            /\ (len > 0 /\ len <= Len(split.in[src])) =>
                  /\ split.ret
                  /\ split.out.bcSeq = SubSeq(split.in[src], 1, len)
                  /\ split.out[src] = SubSeq(split.in[src], len + 1, Len(split.in[src]))
            /\ len > Len(split.in[src]) =>
                  /\ ~split.ret
                  /\ split.out[src] = split.in[src]

C17_Witness ==
    /\ split.kind = "rec" /\ split.done /\ split.ret
    /\ IsPaired(split.in)
    /\ split.barcodeVDJRead
    /\ split.barcodeLength = 2
    /\ Len(split.in.revSeq) = 3 /\ Len(split.in.fwSeq) = 2
    /\ Len(split.out.revSeq) = 1 /\ Len(split.out.fwSeq) = 2
    /\ split.out.bcSeq # split.in.bcSeq

\* ---- properties of mergeRecord, continued -----------------------------------
\* C18: mergeRecord with a multi record whose content is not indexed makes
\* the store one longer, gives the index one more entry, and returns the
\* multi record in the slot the index binds to the content; the index has as
\* many entries as the store has multi records in every state
C18_MergeNewGrowsByOne ==
    /\ [](Cardinality(IndexEntries) = Len(multiRecordPtrs))
    /\ [][(last'.op = "merge" /\ last'.case = "new" /\ status' = "ok")
            => /\ Len(multiRecordPtrs') = Len(multiRecordPtrs) + 1
               /\ Cardinality(IndexEntriesOf(paired, bcMap'))
                     = Cardinality(IndexEntries) + 1
               /\ <<KeyOf(last'.arg), last'.ret>> \in IndexEntriesOf(paired, bcMap')]_vars

RECURSIVE RSum(_)
RSum(xs) == IF Len(xs) = 0 THEN <<0, 1>> ELSE RAdd(xs[1], RSum(Tail(xs)))

MergedReads == SumSeq([k \in 1..Len(merged) |-> Cardinality(merged[k].ids)])

\* mean at position i over the folded reads and the reads of the merged multi
\* records: every merged multi record counts with its number of reads
WeightedMeanAt(field, qfield, i) ==
    RDivInt(RAdd(<<SumSeq([j \in 1..Len(folded) |-> getQualityValue(folded[j][field][i])]), 1>>,
                 RSum([k \in 1..Len(merged) |->
                         RScale(merged[k][qfield][i], Cardinality(merged[k].ids))])),
            Len(folded) + MergedReads)

WeightedMeanVector(field, qfield) ==
    [i \in 1..Len(folded[1][field]) |-> WeightedMeanAt(field, qfield, i)]

Destination == multiRecordPtrs[findMultiRecordPosition(Coll, folded[1]) + 1]

\* C19: after n >= 1 multi records were merged into the multi record of the
\* folded reads, its mean quality at every position is the mean over all
\* reads, the folded ones and those of the merged multi records
C19_MergedMeanIsWeighted ==
    (Len(merged) >= 1 /\ status = "ok") =>
        IF paired
        THEN /\ Destination.fwQualities = WeightedMeanVector("fwSeq", "fwQualities")
             /\ Destination.revQualities = WeightedMeanVector("revSeq", "revQualities")
        ELSE Destination.qualities = WeightedMeanVector("seq", "qualities")

\* C20: no SEQAN_CHECK of the mean update fails when a record is folded into
\* the multi record of its content or a multi record is merged into the
\* multi record of its content, also when a payload is empty
C20_CheckNeverFires ==
    [][(last'.op \in {"find", "merge"} /\ last'.case # "new") => status' # "aborted"]_vars

\* ---- slots ----------------------------------------------------------------
\* a step of a call other than clear keeps every index entry and the content
\* of every multi record of the store
SlotsStable ==
    /\ IndexEntries \subseteq IndexEntriesOf(paired, bcMap')
    /\ Len(multiRecordPtrs') >= Len(multiRecordPtrs)
    /\ \A i \in 1..Len(multiRecordPtrs) : KeyOf(multiRecordPtrs'[i]) = KeyOf(multiRecordPtrs[i])

\* a step that folds a record or a multi record into the slot it returns
\* leaves every other multi record as it was
OthersUnchanged ==
    \A i \in 1..Len(multiRecordPtrs) :
        i # last'.ret + 1 => multiRecordPtrs'[i] = multiRecordPtrs[i]

\* C21: content seen for the first time is given the slot that equals the
\* length of the store before the insertion; between two clears no call
\* changes the slot of a key, removes a key or changes the content of a
\* multi record; folding into one multi record leaves the others unchanged
C21_SlotsDenseAndStable ==
    [][/\ (last'.op \in {"find", "merge"}) => SlotsStable
       /\ (last'.op \in {"find", "merge"} /\ last'.case = "fold" /\ status' = "ok")
             => OthersUnchanged
       /\ (/\ last'.op \in {"find", "merge"} /\ last'.case = "new" /\ status' = "ok"
           /\ Len(multiRecordPtrs') > Len(multiRecordPtrs))
             => <<KeyOf(last'.arg), Len(multiRecordPtrs)>>
                   \in IndexEntriesOf(paired, bcMap')]_vars

\* the part of C21 that holds for every call: stability
C21_StableOnly ==
    [][/\ (last'.op \in {"find", "merge"}) => SlotsStable
       /\ (last'.op \in {"find", "merge"} /\ last'.case = "fold" /\ status' = "ok")
             => OthersUnchanged]_vars

\* ------------------------------------------------------------------------
\* Direct calls of getBarcodeStats
\* ------------------------------------------------------------------------
MaxStore == 3

\* findContainingMultiRecord(collection, record, true)
StatsInsert(record) ==
    /\ Len(findContainingMultiRecord(Coll, record, TRUE).coll.multiRecordPtrs) <= MaxStore
    /\ FindContaining(record, TRUE)

\* mergeRecord(collection, mRec)
StatsMerge(mRec) ==
    /\ Len(mergeRecord(Coll, mRec).coll.multiRecordPtrs) <= MaxStore
    /\ MergeRecord(mRec)

\* getBarcodeStats(coll): the collection is passed by const reference
GetBarcodeStats ==
    /\ pc # "loop" /\ status = "ok"
    /\ last' = [op |-> "stats", insert |-> FALSE, case |-> "new",
                ret |-> getBarcodeStats(Coll, paired), arg |-> Coll]
    /\ UNCHANGED <<paired, multiRecordPtrs, bcMap, options, status>>
    /\ UNCHANGED readVars

NextStats ==
    \/ \E record \in Records(paired) : StatsInsert(record)
    \/ \E mRec \in MultiRecords(paired) : StatsMerge(mRec)
    \/ GetBarcodeStats

SpecStats == InitColl /\ [][NextStats]_vars

\* ---- getBarcodeStats against its definition -------------------------------
\* the identifiers held by the multi records that the index entries es bind
RECURSIVE SumIds(_, _)
SumIds(coll, es) ==
    IF es = {} THEN 0
    ELSE LET e == CHOOSE x \in es : TRUE
         IN  Cardinality(coll.multiRecordPtrs[e[2] + 1].ids) + SumIds(coll, es \ {e})

\* the index entries under barcode bc
EntriesUnder(pe, coll, bc) == {e \in IndexEntriesOf(pe, coll.bcMap) : e[1][1] = bc}

ReadsUnder(pe, coll, bc) == SumIds(coll, EntriesUnder(pe, coll, bc))

UniqueUnder(pe, coll, bc) ==
    Cardinality({e \in EntriesUnder(pe, coll, bc) : coll.multiRecordPtrs[e[2] + 1].ids # {}})

\* the single-end collection as a paired-end one whose second read is empty
\* in every multi record
AsPaired(coll) ==
    [multiRecordPtrs |->
        [i \in 1..Len(coll.multiRecordPtrs) |->
            LET m == coll.multiRecordPtrs[i]
            IN  [bcSeq |-> m.bcSeq, fwSeq |-> m.seq, revSeq |-> <<>>, ids |-> m.ids,
                 fwQualities |-> m.qualities, revQualities |-> <<>>,
                 nMeanReads |-> m.nMeanReads]],
     bcMap |-> [b \in DOMAIN coll.bcMap |->
                  [s \in DOMAIN coll.bcMap[b] |-> MapPut(EmptyMap, <<>>, coll.bcMap[b][s])]]]

\* the statistics as a set of <<barcode, reads, unique contents>>
StatsRows(st) == {<<st.bcSeqs[i], st.nReads[i], st.nUniqueReads[i]>> : i \in 1..Len(st.bcSeqs)}

\* C22: getBarcodeStats leaves the collection unchanged; a barcode of the index
\* is in the result exactly when the identifier sets of the multi records
\* indexed under it hold at least one identifier, and then once, with the sum
\* of the sizes of these identifier sets as nReads and the number of these
\* multi records with a non-empty identifier set as nUniqueReads; the
\* paired-end variant gives the same rows and totals on the single-end
\* collection taken as pairs with an empty second read
C22_StatsAgreeWithDefinition ==
    last.op = "stats" =>
        LET st == last.ret
        IN  /\ Coll = last.arg
            /\ Len(st.nReads) = Len(st.bcSeqs) /\ Len(st.nUniqueReads) = Len(st.bcSeqs)
            /\ \A b \in DOMAIN bcMap :
                  (ReadsUnder(paired, Coll, b) > 0) <=> (\E i \in 1..Len(st.bcSeqs) : st.bcSeqs[i] = b)
            /\ \A i, j \in 1..Len(st.bcSeqs) : st.bcSeqs[i] = st.bcSeqs[j] => i = j
            /\ \A i \in 1..Len(st.bcSeqs) :
                  /\ st.bcSeqs[i] \in DOMAIN bcMap
                  /\ st.nReads[i] = ReadsUnder(paired, Coll, st.bcSeqs[i])
                  /\ st.nUniqueReads[i] = UniqueUnder(paired, Coll, st.bcSeqs[i])
            /\ ~paired =>
                  LET pe == getBarcodeStats_PE(AsPaired(Coll))
                  IN  /\ StatsRows(pe) = StatsRows(st)
                      /\ Len(pe.bcSeqs) = Len(st.bcSeqs)
                      /\ pe.nTotalReads = st.nTotalReads
                      /\ pe.nTotalUniqueReads = st.nTotalUniqueReads

\* statistics of a single-end collection with two barcodes, one of them with
\* two reads of one content
C22_Witness ==
    /\ ~paired
    /\ last.op = "stats"
    /\ Len(last.ret.bcSeqs) = 2
    /\ \E i \in 1..Len(last.ret.bcSeqs) :
          last.ret.nReads[i] = 2 /\ last.ret.nUniqueReads[i] = 1

\* ---- rejected records -------------------------------------------------------
\* the reject events the running call has appended
BatchRejects == Len(rejectEvents) - Len(batch.startEvents)

\* C23: the collection of a readRecords call is the collection of a call
\* that is given only the records the first call accepted, in the same
\* order, and that call accepts every one of them: nothing a rejected record
\* left in the record buffer reaches a multi record
C23_RejectedRecordsLeaveNoTrace ==
    pc \in {"loop", "returned"} =>
        /\ batch.refOk
        /\ batch.refColl = Coll

\* a call with a barcode to split off that accepted two records of
\* different content and rejected one as too short for the barcode, the last
\* record being an accepted one
C23_Witness ==
    /\ pc = "returned" /\ status = "ok"
    /\ options.barcodeLength > 0
    /\ r = "NONE"
    /\ batch.nAccepted = 2
    /\ BatchRejects = 1
    /\ rejectEvents[Len(rejectEvents)].reason = "TOO_SHORT_FOR_BARCODE"
    /\ Len(multiRecordPtrs) = 2

\* ------------------------------------------------------------------------
\* Direct calls of mapMultiRecord
\* ------------------------------------------------------------------------
\* mapMultiRecord(collection, mRec): when the SEQAN_CHECK fails the process
\* ends with the store already one longer and the index as the check left it
MapMultiRecord(mRec) ==
    /\ pc # "loop" /\ status = "ok"
    /\ LET m == mapMultiRecord(Coll, mRec)
       IN  /\ Len(m.coll.multiRecordPtrs) <= MaxStore
           /\ SetColl(m.coll)
           /\ status' = IF m.ok THEN status ELSE "aborted"
           /\ last' = [op |-> "map", insert |-> TRUE,
                       case |-> CaseOf(Coll, toFastqRecordSkel(mRec)), ret |-> m.ret,
                       arg |-> mRec]
    /\ UNCHANGED <<paired, options>>
    /\ UNCHANGED readVars

NextMap == \E mRec \in MultiRecords(paired) : MapMultiRecord(mRec)

SpecMap == InitColl /\ [][NextMap]_vars

\* C24: mapMultiRecord with a multi record whose content is indexed fails its
\* SEQAN_CHECK, and no call of mapMultiRecord removes an index entry or binds
\* an indexed content to another slot
C24_MapNeverOverwrites ==
    [][last'.op = "map" =>
          /\ (KeyOf(last'.arg) \in {e[1] : e \in IndexEntries}) <=> (status' = "aborted")
          /\ IndexEntries \subseteq IndexEntriesOf(paired, bcMap')
          /\ \A e \in IndexEntriesOf(paired, bcMap') :
                e \notin IndexEntries => e = <<KeyOf(last'.arg), Len(multiRecordPtrs)>>]_vars

\* the second of two contents mapped is mapped again: the call aborts with
\* the two index entries as they were
C24_Witness ==
    /\ last.op = "map" /\ last.case # "new"
    /\ status = "aborted"
    /\ Len(multiRecordPtrs) = 3
    /\ Cardinality(IndexEntries) = 2
    /\ <<KeyOf(last.arg), 1>> \in IndexEntries

\* ------------------------------------------------------------------------
\* Quality control of given pairs, and what readRecords does with the verdict
\* ------------------------------------------------------------------------
MaxQC == 2

MaxMinReadLength == 2

QCOptions ==
    [barcodeLength : {0}, barcodeVDJRead : {FALSE}, minReadLength : 0..MaxMinReadLength,
     singleEndFallback : BOOLEAN, bcQmin : {0}, qmin : {0, 20}]

\* pairs as the quality control is given them: the barcode has been split off
QCRecords ==
    [id : 1..2, bcSeq : {<<>>, <<N30>>}, fwSeq : {<<>>, <<A30>>, <<A30, C10>>},
     revSeq : {<<C30>>, <<A30, C10>>}]

InitQC ==
    /\ paired = TRUE
    /\ InitCommon
    /\ split = NoSplit
    /\ inStreams = [remaining |-> 0, totalInBytes |-> 0]
    /\ options \in QCOptions

\* qualityControl(rec, options) on a given pair, then as readRecords goes on:
\* findContainingMultiRecord(collection, rec, true) when the verdict is NONE,
\* a RejectEvent otherwise
ControlAndFold(record, outcome) ==
    /\ status = "ok"
    /\ Len(multiRecordPtrs) + Len(rejectEvents) < MaxQC
    /\ LET qc == qualityControl(record, options, outcome)
           f  == findContainingMultiRecord(Coll, qc.rec, TRUE)
       IN  /\ raw' = record
           /\ rec' = qc.rec
           /\ r' = qc.r
           /\ qcCalled' = TRUE
           /\ last' = [op |-> "qc", insert |-> TRUE, case |-> CaseOf(Coll, qc.rec),
                       ret |-> NULL, arg |-> outcome]
           /\ IF qc.r = "NONE"
              THEN /\ IF f.ok THEN SetColl(f.coll) /\ status' = status
                              ELSE UNCHANGED <<multiRecordPtrs, bcMap>> /\ status' = "aborted"
                   /\ UNCHANGED rejectEvents
              ELSE /\ rejectEvents' = Append(rejectEvents, RejectEvent(qc.rec.id, qc.r))
                   /\ UNCHANGED <<multiRecordPtrs, bcMap, status>>
    /\ UNCHANGED <<paired, inStreams, options, pc, count, complCount, progBar, tsfb, ret,
                   batch, nCalls, folded, merged, split>>

NextQC ==
    \E record \in QCRecords :
       \E outcome \in AvgOutcomes(record, options.singleEndFallback) :
          ControlAndFold(record, outcome)

SpecQC == InitQC /\ [][NextQC]_vars

\* ---- the length check of a pair ---------------------------------------------
\* the pair given to the quality control passes the checks made before the
\* length check
ReachesLengthCheck(x, outcome) ==
    /\ ~contains(x.bcSeq, "N")
    /\ ~(options.bcQmin > 0 /\ anyQualityBelow(x.bcSeq, options.bcQmin))
    /\ ~(options.qmin > 0 /\ outcome = "below")

\* the pair as the length check is given it
AtLengthCheck(x, outcome) ==
    IF options.qmin > 0
    THEN averageQualityBelow(x, options.qmin, options.singleEndFallback, outcome).rec
    ELSE x

IndexedKeys(m) == {e[1] : e \in IndexEntriesOf(paired, m)}

RejectedTooShort(x) ==
    /\ r' = "READ_TOO_SHORT"
    /\ rejectEvents' = Append(rejectEvents, RejectEvent(x.id, "READ_TOO_SHORT"))
    /\ CollUnchanged

AcceptedAs(y) ==
    /\ r' = "NONE"
    /\ rec' = y
    /\ rejectEvents' = rejectEvents
    /\ KeyOf(y) \in IndexedKeys(bcMap')
    /\ IndexedKeys(bcMap') = IndexedKeys(bcMap) \cup {KeyOf(y)}

DriveRecords(pe) ==
    IF pe THEN {[id |-> 1, fwSeq |-> <<A10, A30, C30>>, revSeq |-> <<A10, A30, C30>>],
                [id |-> 2, fwSeq |-> <<A30>>, revSeq |-> <<A30>>]}
          ELSE {[id |-> 1, seq |-> <<A10, A30, C30>>], [id |-> 2, seq |-> <<A30>>]}

DriveStreams(pe) == UNION {[1..n -> DriveRecords(pe)] : n \in 0..MaxRecords}

\* the calls a drive can need, and one more
MaxDriveCalls == MaxRecords + 1

\* the records the reader has handed out
Position == Len(inStreams.records) - inStreams.remaining

InitDrive ==
    /\ paired \in BOOLEAN
    /\ InitCommon
    /\ split = NoSplit
    /\ \E records \in DriveStreams(paired), bytes \in {0, 1} :
          inStreams = [remaining |-> Len(records), totalInBytes |-> bytes,
                       records |-> records]
    /\ options \in OptionSamples

\* the first call, or the next call after a call that returned true, with
\* the same count = cnt > 0
DriveBegin(cnt) ==
    /\ cnt > 0
    /\ nCalls = 0 \/ (pc = "returned" /\ ret /\ cnt = count)
    /\ nCalls < MaxDriveCalls
    /\ ReadRecordsEnter(cnt)

\* loop iteration that reads the next record of the reader
DriveRead ==
    /\ inStreams.remaining > 0
    /\ \E outcome \in AvgOutcomes(inStreams.records[Position + 1], options.singleEndFallback) :
          ReadRecordsIter(inStreams.records[Position + 1], outcome)

NextDrive ==
    \/ \E cnt \in Counts : DriveBegin(cnt)
    \/ \E crash \in BOOLEAN : ReadRecordsLimit(crash)
    \/ DriveRead
    \/ \E crash \in BOOLEAN : ReadRecordsEnd(crash)

\* DriveRead is enabled exactly when the guards of the reading iteration
\* hold: the iteration has an outcome for every record and always changes
\* complCount
CanRead == pc = "loop" /\ status = "ok" /\ ~inStreamsAtEnd(inStreams) /\ ~LimitReached

\* WF_vars(DriveRead), with ENABLED <<DriveRead>>_vars written as CanRead
ReadFairness == []<>(~CanRead) \/ []<><<DriveRead>>_vars

\* the program is sequential: the caller and readRecords always take their
\* next step
DriveFairness ==
    /\ WF_vars(\E cnt \in Counts : DriveBegin(cnt))
    /\ WF_vars(\E crash \in BOOLEAN : ReadRecordsLimit(crash))
    /\ WF_vars(\E crash \in BOOLEAN : ReadRecordsEnd(crash))
    /\ ReadFairness

SpecDrive == InitDrive /\ [][NextDrive]_vars /\ DriveFairness

\* ---- driving an input to its end --------------------------------------------
\* the drive is over: the last call returned false with the reader at its
\* end, or the process died (failed SEQAN_CHECK, null progress bar)
DriveOver ==
    \/ status # "ok"
    \/ pc = "returned" /\ ~ret /\ inStreamsAtEnd(inStreams)

\* C26: a drive with count = n > 0 comes to its end; a call returns false
\* only with the reader at its end; a step that consumes a record takes the
\* next record of the input, gives it one outcome (the collection or one
\* reject event) and no call consumes more than n; no other step, and so no
\* return and no entry of a call, moves the reader
C26_DriveConsumesAllOnce ==
    /\ []((pc = "returned" /\ ~ret) => inStreamsAtEnd(inStreams))
    /\ [][IF Consumes
          THEN /\ raw' = inStreams.records[Position + 1]
               /\ inStreams'.remaining = inStreams.remaining - 1
               /\ complCount' <= count
               /\ (r' = "NONE") # (Len(rejectEvents') = Len(rejectEvents) + 1)
               /\ r' = "NONE" => rejectEvents' = rejectEvents
          ELSE inStreams' = inStreams]_vars
    /\ <>DriveOver

\* three records driven with count = 1 to the end: three calls, the last
\* returned false, one record in the collection of the last call or one more
\* reject event
C26_Witness ==
    /\ Len(inStreams.records) = 3
    /\ count = 1 /\ nCalls = 3
    /\ pc = "returned" /\ ~ret /\ status = "ok"
    /\ inStreamsAtEnd(inStreams)
    /\ Len(rejectEvents) >= 1
    /\ Len(multiRecordPtrs) = 1

\* ---- the progress bar --------------------------------------------------------
\* C27: a reader that reports no byte volume gets no progress bar, and
\* readRecords never calls through the null pointer, neither at the bounded
\* early return nor at the end of the input: the process never dies of it
C27_AbsentProgBarNeverUsed == status # "crashed"

\* ---- shape of the multi records --------------------------------------------
WellFormed(m) ==
    /\ m.ids # {}
    /\ IF IsPaired(m)
       THEN Len(m.fwQualities) = Len(m.fwSeq) /\ Len(m.revQualities) = Len(m.revSeq)
       ELSE Len(m.qualities) = Len(m.seq)

\* C28: every multi record of the store has at least one identifier, and
\* each of its mean quality vectors is as long as the read it belongs to
C28_AggregatesWellFormed ==
    \A i \in 1..Len(multiRecordPtrs) : WellFormed(multiRecordPtrs[i])

\* a store with a multi record made from a record, folded into and merged
\* into: three reads, a read of two bases
C28_Witness ==
    /\ last.op = "merge" /\ last.case = "fold" /\ status = "ok"
    /\ \E i \in 1..Len(multiRecordPtrs) :
          /\ Cardinality(multiRecordPtrs[i].ids) = 2
          /\ multiRecordPtrs[i].nMeanReads = 3
          /\ ~paired => Len(multiRecordPtrs[i].seq) = 2
          /\ paired => Len(multiRecordPtrs[i].revSeq) = 2

====
